---- MODULE Spec2Model ----
(***************************************************************************)
(* Peer task pull engine of the Dragonfly2 client daemon                   *)
(* (client/daemon/peer/peertask_base.go, peertask_file.go).                *)
(*                                                                         *)
(* One file peer task is modelled with its goroutines:                     *)
(*   main    the goroutine started by Start: pullSinglePiece,              *)
(*           pullPiecesFromPeers or backSource;                            *)
(*   coord   receivePeerPacket;                                            *)
(*   workers downloadPieceWorker;                                          *)
(* and its environment: the scheduler stream (Recv), the remote peers      *)
(* (GetPieceTasks), the piece manager (DownloadPiece, DownloadSource), the *)
(* task callback and the initiator that reads the progress channel.        *)
(* Every goroutine has a program counter and a stack of return labels for  *)
(* the calls ReportPieceResult / finish / cleanUnfinished / backSource.    *)
(***************************************************************************)
EXTENDS Integers, Sequences, FiniteSets

\* ------------------------------------------------------------------ bounds
\* pieces of the task, numbered 0 .. NumPieces-1
NumPieces == 2
\* largest ParallelCount a peer packet announces (piece workers started)
MaxParallel == 1
\* peer packets with peers the scheduler stream delivers to Recv
MaxPackets == 2
\* faults the environment injects: a failed download or get-piece call, a
\* callback error, a refusal of the limiter, the end or an error of the
\* scheduler stream, a packet the task does not store, a packet with another
\* ParallelCount than the one before, a cancellation by the initiator
MaxFaults == 1
\* capacity of failedPieceCh and of the piece request channel
DefaultPieceChanSize == 2
\* longest hostname given to GetSchedulerQueue and GetCDNQueue
MaxHostLen == 3
\* calls of getPieceTasks that one fetch of piece metadata from one peer is
\* followed through
MaxRounds == 2
\* the pieces of the task whose channels are checked for a circular wait
MaxChanPieces == 6

Pieces == 0 .. (NumPieces - 1)
Workers == 1 .. MaxParallel
\* the goroutine started by Start is thread 0, worker i is thread i
Main == 0
Threads == {Main} \cup Workers
Peers == {"P1", "P2"}
None == "none"
\* nil values of the task's pointers
NilPeerPacket == [MainPeer |-> None, StealPeers |-> {}, ParallelCount |-> 0]
\* the ParallelCount values a peer packet announces
ParallelCounts == 0 .. MaxParallel
\* the Success packets with a main peer, which carry the other peers as steal
\* peers, and the ones with steal peers only
MainPeerPackets ==
    {[MainPeer |-> p, StealPeers |-> Peers \ {p}, ParallelCount |-> c] :
        p \in Peers, c \in ParallelCounts}
StealPeerPackets ==
    {[MainPeer |-> None, StealPeers |-> Peers, ParallelCount |-> c] :
        c \in ParallelCounts}
NilPiecePacket == [nil |-> TRUE, PieceInfos |-> <<>>]
NoFail == [code |-> None, reason |-> None]
NoEvent == [by |-> None, success |-> FALSE, code |-> None, msg |-> None]
\* what had been observed when the one-shot body built its terminal event
NotBuilt == [exit |-> None, first |-> NoFail, cancelFirst |-> FALSE]
\* no PieceResult was passed to peerPacketStream.Send yet
NoSend == [kind |-> None, fc |-> 0, ready |-> 0]
\* newFilePeerTask has not returned yet
\* a nil *TinyData
NoTinyData == [TaskID |-> None, PeerID |-> None, Content |-> None]
NoReturn == [task |-> FALSE, tiny |-> NoTinyData, err |-> None]
\* getNextPieceNum has not been called
NotCalled == -2

\* ------------------------------------------------------------- registration
\* request.PeerId, the TaskId of a RegisterResult and idgen.TaskID(Url, UrlMeta)
PeerID == "peer-1"
SchedTaskID == "task-of-scheduler"
IdgenTaskID == "TaskID(url, urlMeta)"
\* the error RegisterPeerTask returns when the registration fails
RegisterError == "ClientRegisterFail"
\* piece contents a Tiny registration result carries inline
Contents == {"content-a", "content-b"}
\* what RegisterPeerTask returns: an error, or a result with a size scope and
\* a DirectPiece (a single piece, an inline content, or none)
RegNormal == [err |-> None, TaskId |-> SchedTaskID, scope |-> "NORMAL", direct |-> None]
RegResults ==
    {[err |-> RegisterError, TaskId |-> None, scope |-> None, direct |-> None],
     RegNormal,
     [err |-> None, TaskId |-> SchedTaskID, scope |-> "SMALL", direct |-> "SinglePiece"],
     [err |-> None, TaskId |-> SchedTaskID, scope |-> "TINY", direct |-> None]}
    \cup {[err |-> None, TaskId |-> SchedTaskID, scope |-> "TINY", direct |-> c] :
             c \in Contents}

\* ------------------------------------------------------------ internal/job
\* strings are sequences of characters; hostnames are made of these
HostChars == {"a", "b", "_"}
Hostnames == UNION {[1 .. n -> HostChars] : n \in 0 .. MaxHostLen}
\* errors.New("empty hostname config is not specified")
ErrEmptyHostname == "empty hostname config is not specified"
\* no call of a queue function has returned yet
NoQueueResult == [fn |-> None, queue |-> <<>>, err |-> None]

\* a queue name that is the hostname alone
QueueWithoutPrefix(h) == [queue |-> h, err |-> None]

\* GetSchedulerQueue: Queue(fmt.Sprintf("scheduler_%s", hostname)), nil, and
\* Queue(""), the error for the empty hostname
GetSchedulerQueue(h) ==
    IF h = <<>>
    THEN [queue |-> <<>>, err |-> ErrEmptyHostname]
    ELSE [queue |-> <<"s", "c", "h", "e", "d", "u", "l", "e", "r", "_">> \o h,
          err |-> None]

\* GetCDNQueue: Queue(fmt.Sprintf("cdn_%s", hostname)), nil, and Queue(""),
\* the error for the empty hostname
GetCDNQueue(h) ==
    IF h = <<>>
    THEN [queue |-> <<>>, err |-> ErrEmptyHostname]
    ELSE [queue |-> <<"c", "d", "n", "_">> \o h, err |-> None]

\* ------------------------------------------------------------------- codes
failedCodeNotSet == "failedCodeNotSet"
failedReasonNotSet == "unknown"
reasonScheduleTimeout == "wait first peer packet from scheduler timeout"
reasonReScheduleTimeout == "wait more available peers from scheduler timeout"
reasonContextCanceled == "context canceled"
reasonPeerGoneFromScheduler == "scheduler says client should disconnect"

ExitCodes ==
    {"ResourceLacked", "BadRequest", "PeerTaskNotFound", "UnknownError",
     "RequestTimeOut", "SchedError", "SchedPeerGone", "CdnError",
     "CdnTaskRegistryFail", "CdnTaskDownloadFail"}
\* non-success codes a packet can carry besides the ones above
OtherCodes == {"SchedNeedBackSource", "CdnTaskNotFound"}
\* the codes the scheduler of the model puts in a packet
PacketCodes == {"SchedError", "SchedPeerGone", "CdnTaskNotFound"}

\* the failedReason isExitPeerPacketCode records for a code
ExitReason(code) ==
    IF code = "SchedPeerGone" THEN reasonPeerGoneFromScheduler
    ELSE "receive exit peer packet with code"

\* a test that takes every code of a packet for an exit code
EveryCodeExits(code) == TRUE

\* the switch of isExitPeerPacketCode: true for the codes it lists
isExitPeerPacketCode(code) == code \in ExitCodes

\* ------------------------------------------------- get-piece calls to a peer
\* the attempts retry.Run is given in getPieceTasks
MaxAttempts == 40
\* what dfclient.GetPieceTasks returns: a piece packet with pieces or with no
\* piece, or an error: a DfError with a code, or the gRPC status Canceled
PeerAnswers == {"pieces", "empty", "CdnTaskNotFound", "ClientPieceRequestFail",
                "Canceled"}

\* ------------------------------------------------------------------- state
VARIABLES
    \* inputs and results of newFilePeerTask
    regResult,              \* what RegisterPeerTask returned
    ret,                    \* the task, tiny data or error newFilePeerTask returned
    stream,                 \* pt.peerPacketStream: none, real or dummy
    taskID,                 \* pt.taskID
    \* configuration fixed at construction (newFilePeerTask)
    singlePiece,            \* registration returned size scope Small
    disableAutoBackSource,  \* schedulerOption.DisableAutoBackSource
    limiter,                \* perPeerRateLimit > 0
    \* peerTask fields
    ctxDone, needBackSource, done, once, peerTaskDone, progressStopCh,
    failedCode, failedReason,
    readyPieces, requestedPieces, totalPiece, contentLength, completedLength,
    peerPacket, peerPacketReady, failedPieceCh, pieceRequestCh,
    \* goroutines
    pc, stack, cur, coordPc, initPc,
    \* locals of pullPiecesFromPeers
    num, limit, initialized, piecePacket, panicking, crashed,
    \* terminal progress event built by the one-shot body
    pg,
    \* environment budgets
    packetsLeft, faultsLeft,
    \* observations
    bodyRuns, doneCloses, terminalEvents, failCalls, doneCalls,
    successSent, endSent, downloadSourceCalls, firstFail, exitPacket,
    cancelFirst, wokenByClose, built,
    lastSent, schedulerSaw, coordStarts, pullStarts, takenFailed, dsResult,
    \* peer packets: pt.pieceParallelCount, the packet preparePieceTasks
    \* loaded, and what Recv returned
    pieceParallelCount, curPeerPacket, lastGood, lastRecv, packetChanged,
    firstParallel, workersStarted, backSourceFrom, wokenByPacket,
    limitRefused,
    \* one call of preparePieceTasksByPeer: its position, the get-piece calls
    \* made to the peer, the attempts of the running retry.Run, the calls of
    \* getPieceTasks after the first, and what it returned
    fetchPc, attempts, tries, rounds, fetchResult,
    \* what the last call of getNextPieceNum returned
    nextNum,
    \* internal/job: the hostname of the configuration and what the last
    \* call of a queue function returned
    hostname, queueResult,
    \* scheduler peer manager: m.peerMap, the peers of each host, the hosts of
    \* the host manager, the holder of m.lock, the position of cleanupPeers
    \* and the peer it visits, the position of each caller of Add, and whether
    \* a host was deleted while it had a peer
    peerMap, hostPeers, hostMap, gcLock, gcPc, gcPeer, addPc, deletedBusyHost

cfgVars == <<regResult, ret, stream, taskID, singlePiece,
            disableAutoBackSource, limiter>>
taskVars == <<ctxDone, needBackSource, done, once, peerTaskDone, progressStopCh,
              failedCode, failedReason>>
pieceVars == <<readyPieces, requestedPieces, totalPiece, contentLength,
               completedLength>>
chanVars == <<peerPacket, peerPacketReady, failedPieceCh, pieceRequestCh>>
procVars == <<pc, stack, cur, coordPc, initPc>>
pullVars == <<num, limit, initialized, piecePacket, panicking, crashed>>
envVars == <<packetsLeft, faultsLeft>>
obsVars == <<bodyRuns, doneCloses, terminalEvents, failCalls, doneCalls,
             successSent, endSent, downloadSourceCalls, firstFail, exitPacket,
             cancelFirst, wokenByClose, built, lastSent, schedulerSaw,
             coordStarts, pullStarts, takenFailed, dsResult>>
packetVars == <<pieceParallelCount, curPeerPacket, lastGood, lastRecv,
                packetChanged, firstParallel, workersStarted, backSourceFrom,
                wokenByPacket, limitRefused>>
jobVars == <<hostname, queueResult>>
fetchVars == <<fetchPc, attempts, tries, rounds, fetchResult, nextNum>>
gcVars == <<peerMap, hostPeers, hostMap, gcLock, gcPc, gcPeer, addPc,
            deletedBusyHost>>
vars == <<cfgVars, taskVars, pieceVars, chanVars, procVars, pullVars, pg,
          envVars, obsVars, packetVars, jobVars, fetchVars, gcVars>>

\* ----------------------------------------------------------------- helpers
RECURSIVE SumRange(_)
\* PieceInfo.RangeSize of piece n
RangeSize(n) == n + 1
SumRange(S) == IF S = {} THEN 0
               ELSE LET n == CHOOSE x \in S : TRUE
                    IN RangeSize(n) + SumRange(S \ {n})
\* the pieces of the task: a task of size scope Small has the single piece 0
TaskPieces == IF singlePiece THEN {0} ELSE Pieces
\* PiecePacket.TotalPiece and PiecePacket.ContentLength the peers and the
\* source announce
TotalPiece == Cardinality(TaskPieces)
TotalLength == SumRange(TaskPieces)

Min(a, b) == IF a < b THEN a ELSE b

\* a completion test that is always met, and one that never is
AlwaysCompleted == TRUE
NeverCompleted == FALSE

\* pt.completedLength.Load() == pt.contentLength.Load()
isCompleted == completedLength = contentLength

\* first recorded failure: the code and the reason a failure source wrote
\* first; None for a field the source does not write
NoteFail(code, reason) ==
    firstFail' = [code |-> IF firstFail.code = None THEN code
                           ELSE firstFail.code,
                  reason |-> IF firstFail.reason = None THEN reason
                             ELSE firstFail.reason]

\* pt.peerPacketStream.Send of a PieceResult of the given kind with
\* FinishedCount fc while ready pieces are marked ready; the stream of the
\* dummy scheduler client returns nil and passes nothing on
StreamSend(kind, fc, ready) ==
    /\ lastSent' = [kind |-> kind, fc |-> fc, ready |-> ready]
    /\ schedulerSaw' = (schedulerSaw \/ stream # "dummy")

\* the environment injects one more fault
InjectFault == faultsLeft > 0 /\ faultsLeft' = faultsLeft - 1

At(t, l) == ~crashed /\ pc[t] = l
Goto(t, l) == pc' = [pc EXCEPT ![t] = l]
\* call label l, returning to label r
Call(t, l, r) == /\ pc' = [pc EXCEPT ![t] = l]
                 /\ stack' = [stack EXCEPT ![t] = <<r>> \o @]
Return(t) == /\ pc' = [pc EXCEPT ![t] = Head(stack[t])]
             /\ stack' = [stack EXCEPT ![t] = Tail(@)]

\* the peer task before newFilePeerTask is called
\* the peers the scheduler is asked to add and the hosts they run on: p1 and
\* p2 on the host h1, p3 on the CDN host
GcPeers == {"p1", "p2", "p3"}
Hosts == {"h1", "hcdn"}
PeerHost(p) == IF p = "p3" THEN "hcdn" ELSE "h1"
CDN(h) == h = "hcdn"

\* NewManager: no peer is stored, the host manager holds the hosts, the lock
\* is free and cleanupPeers waits for its ticker
NewManager ==
    /\ peerMap = {} /\ hostPeers = [h \in Hosts |-> {}] /\ hostMap = Hosts
    /\ gcLock = None /\ gcPc = "tick" /\ gcPeer = None
    /\ addPc = [p \in GcPeers |-> "idle"]
    /\ deletedBusyHost = FALSE

TaskInit ==
    /\ NewManager
    \* the arguments of newFilePeerTask and the answer of the scheduler
    /\ regResult \in RegResults
    /\ disableAutoBackSource \in BOOLEAN
    /\ limiter \in BOOLEAN
    /\ ret = NoReturn /\ stream = None /\ taskID = None
    /\ singlePiece = FALSE /\ needBackSource = FALSE
    /\ ctxDone = FALSE /\ done = FALSE /\ once = "fresh"
    /\ peerTaskDone = FALSE /\ progressStopCh = FALSE
    /\ failedCode = "UnknownError" /\ failedReason = failedReasonNotSet
    /\ readyPieces = {} /\ requestedPieces = {}
    /\ totalPiece = -1 /\ contentLength = -1 /\ completedLength = 0
    /\ peerPacket = NilPeerPacket
    /\ peerPacketReady = [buf |-> 0, closed |-> FALSE]
    /\ failedPieceCh = [buf |-> <<>>, closed |-> FALSE]
    /\ pieceRequestCh = <<>>
    /\ pc = [t \in Threads |-> IF t = Main THEN "new" ELSE "idle"]
    /\ stack = [t \in Threads |-> <<>>]
    /\ cur = [t \in Threads |-> 0]
    /\ coordPc = "idle" /\ initPc = "listen"
    /\ num = 0 /\ limit = DefaultPieceChanSize /\ initialized = FALSE
    /\ piecePacket = NilPiecePacket /\ panicking = FALSE /\ crashed = FALSE
    /\ pg = NoEvent
    /\ packetsLeft = MaxPackets /\ faultsLeft = MaxFaults
    /\ bodyRuns = [finish |-> 0, clean |-> 0] /\ doneCloses = 0
    /\ terminalEvents = <<>> /\ failCalls = <<>> /\ doneCalls = 0
    /\ successSent = [n \in Pieces |-> 0] /\ endSent = 0
    /\ downloadSourceCalls = 0 /\ firstFail = NoFail /\ exitPacket = None
    /\ cancelFirst = FALSE /\ wokenByClose = FALSE
    /\ built = NotBuilt
    /\ lastSent = NoSend /\ schedulerSaw = FALSE
    /\ coordStarts = 0 /\ pullStarts = 0
    /\ takenFailed = -1 /\ dsResult = None
    /\ pieceParallelCount = 0 /\ curPeerPacket = NilPeerPacket
    /\ lastGood = NilPeerPacket /\ lastRecv = None /\ packetChanged = FALSE
    /\ firstParallel = -1 /\ workersStarted = -1 /\ backSourceFrom = None
    /\ wokenByPacket = FALSE /\ limitRefused = FALSE
    /\ fetchPc = "idle" /\ attempts = 0 /\ tries = 0 /\ rounds = 0
    /\ fetchResult = None /\ nextNum = NotCalled

\* the peer task is followed; no queue function is called
Init ==
    /\ TaskInit
    /\ hostname = <<>>
    /\ queueResult = NoQueueResult

Cancel == ctxDone' = TRUE

\* ------------------------------------------------- sync.Once of the task
\* a Once that does not remember that its body has run
OnceForgets == TRUE

\* sync.Once.Do runs its argument only for the first caller
OnceFresh == once = "fresh"

\* ------------------------------------------ filePeerTask.ReportPieceResult
\* a report that does not look at the ready bit of the piece
NeverReported(n) == FALSE

\* the check under pt.lock that a piece is already marked ready
AlreadyReported(n) == n \in readyPieces

\* a failed report that pushes the piece on failedPieceCh twice
ReportFailPushesTwice(t, n, r) ==
    /\ StreamSend("fail", Cardinality(readyPieces), Cardinality(readyPieces))
    /\ failedPieceCh' = [failedPieceCh EXCEPT !.buf = Append(Append(@, n), n)]
    /\ Goto(t, r)
    /\ UNCHANGED <<stack, readyPieces, completedLength, successSent>>

\* Success = false for piece n: send the result with FinishedCount =
\* readyPieces.Settled(), push the piece on
\* failedPieceCh and return to r.  A send on the closed channel panics and
\* recoverFromPanic returns; a full channel blocks the caller.
ReportFail(t, n, r) ==
    /\ StreamSend("fail", Cardinality(readyPieces), Cardinality(readyPieces))
    /\ \/ /\ failedPieceCh.closed
          /\ UNCHANGED failedPieceCh
       \/ /\ ~failedPieceCh.closed
          /\ Len(failedPieceCh.buf) < DefaultPieceChanSize
          /\ failedPieceCh' = [failedPieceCh EXCEPT !.buf = Append(@, n)]
    /\ Goto(t, r)
    /\ UNCHANGED <<stack, readyPieces, completedLength, successSent>>

\* a report that sends the PieceResult before it looks at the ready bit
ReportSendsFirst(t, n, r) ==
    /\ successSent' = [successSent EXCEPT ![n] = Min(@ + 1, 2)]
    /\ StreamSend("success", Cardinality(readyPieces \cup {n}),
                  Cardinality(readyPieces \cup {n}))
    /\ IF AlreadyReported(n)
       THEN /\ Call(t, "rp_dup", r)
            /\ UNCHANGED <<readyPieces, completedLength>>
       ELSE /\ readyPieces' = readyPieces \cup {n}
            /\ completedLength' = completedLength + RangeSize(n)
            /\ Call(t, "rp_progress", r)
    /\ UNCHANGED failedPieceCh

\* Success = true for piece n: under pt.lock mark the piece ready and add its
\* RangeSize, then send the PieceResult with FinishedCount =
\* readyPieces.Settled() on the scheduler stream and go on to the progress
\* event; a piece that is already ready is skipped
ReportSuccess(t, n, r) ==
    /\ IF AlreadyReported(n)
       THEN /\ Call(t, "rp_dup", r)
            /\ UNCHANGED <<readyPieces, completedLength, successSent,
                           lastSent, schedulerSaw>>
       ELSE /\ readyPieces' = readyPieces \cup {n}
            /\ completedLength' = completedLength + RangeSize(n)
            /\ successSent' = [successSent EXCEPT ![n] = Min(@ + 1, 2)]
            /\ StreamSend("success", Cardinality(readyPieces'),
                          Cardinality(readyPieces'))
            /\ Call(t, "rp_progress", r)
    /\ UNCHANGED failedPieceCh

\* "piece %d is already reported, skipped"
ReportSkipped(t) ==
    /\ At(t, "rp_dup")
    /\ Return(t)
    /\ UNCHANGED <<regResult, ret, stream, taskID, singlePiece,
                    disableAutoBackSource, limiter, ctxDone, needBackSource,
                    done, once, peerTaskDone, progressStopCh, failedCode,
                    failedReason, readyPieces, requestedPieces, totalPiece,
                    contentLength, completedLength, peerPacket, peerPacketReady,
                    failedPieceCh, pieceRequestCh, cur, coordPc, initPc, num,
                    limit, initialized, piecePacket, panicking, crashed, pg,
                    packetsLeft, faultsLeft, bodyRuns, doneCloses,
                    terminalEvents, failCalls, doneCalls, successSent, endSent,
                    downloadSourceCalls, firstFail, exitPacket, cancelFirst,
                    wokenByClose, built, lastSent, schedulerSaw, coordStarts,
                    pullStarts, takenFailed, dsResult, pieceParallelCount,
                    curPeerPacket, lastGood, lastRecv, packetChanged,
                    firstParallel, workersStarted, backSourceFrom, wokenByPacket,
                    limitRefused, fetchPc, attempts, tries, rounds, fetchResult,
                    nextNum, hostname, queueResult, peerMap, hostPeers, hostMap,
                    gcLock, gcPc, gcPeer, addPc, deletedBusyHost>>

\* select { <-progressStopCh; progressCh <- p; <-ctx.Done() } and, unless the
\* context ended the select: if !pt.isCompleted() { return nil }; return pt.finish()
ReportProgress(t) ==
    /\ At(t, "rp_progress")
    /\ \/ /\ progressStopCh \/ initPc = "listen"
          /\ IF isCompleted
             THEN Goto(t, "fin_once") /\ UNCHANGED stack
             ELSE Return(t)
       \/ /\ ctxDone
          /\ Return(t)
    /\ UNCHANGED <<regResult, ret, stream, taskID, singlePiece,
                    disableAutoBackSource, limiter, ctxDone, needBackSource,
                    done, once, peerTaskDone, progressStopCh, failedCode,
                    failedReason, readyPieces, requestedPieces, totalPiece,
                    contentLength, completedLength, peerPacket, peerPacketReady,
                    failedPieceCh, pieceRequestCh, cur, coordPc, initPc, num,
                    limit, initialized, piecePacket, panicking, crashed, pg,
                    packetsLeft, faultsLeft, bodyRuns, doneCloses,
                    terminalEvents, failCalls, doneCalls, successSent, endSent,
                    downloadSourceCalls, firstFail, exitPacket, cancelFirst,
                    wokenByClose, built, lastSent, schedulerSaw, coordStarts,
                    pullStarts, takenFailed, dsResult, pieceParallelCount,
                    curPeerPacket, lastGood, lastRecv, packetChanged,
                    firstParallel, workersStarted, backSourceFrom, wokenByPacket,
                    limitRefused, fetchPc, attempts, tries, rounds, fetchResult,
                    nextNum, hostname, queueResult, peerMap, hostPeers, hostMap,
                    gcLock, gcPc, gcPeer, addPc, deletedBusyHost>>

\* ----------------------------------------------------- filePeerTask.finish
\* a wait that only the acknowledgement of the initiator ends
WaitsForInitiator == progressStopCh

\* the wait after the terminal event:
\* select { <-pt.progressStopCh; <-pt.ctx.Done() }
ProgressStopped == progressStopCh \/ ctxDone

\* once.Do of finish: the first caller sends the end piece result, runs
\* callback.Done and builds the terminal event; a later caller returns
FinishOnce(t) ==
    /\ At(t, "fin_once")
    /\ IF OnceFresh
       THEN /\ once' = "running"
            /\ bodyRuns' = [bodyRuns EXCEPT !.finish = @ + 1]
            /\ built' = [exit |-> exitPacket, first |-> firstFail,
                         cancelFirst |-> cancelFirst]
            /\ endSent' = Min(endSent + 1, 2)
            /\ StreamSend("end", Cardinality(readyPieces), Cardinality(readyPieces))
            /\ doneCalls' = Min(doneCalls + 1, 2)
            /\ \/ /\ pg' = [by |-> "finish", success |-> TRUE,
                             code |-> "Success", msg |-> "Success"]
                  /\ UNCHANGED faultsLeft
               \/ /\ InjectFault
                  /\ pg' = [by |-> "finish", success |-> FALSE,
                            code |-> "ClientError", msg |-> "done callback error"]
            /\ Goto(t, "fin_send")
            /\ UNCHANGED stack
       ELSE /\ once = "complete"
            /\ Return(t)
            /\ UNCHANGED <<once, bodyRuns, endSent, doneCalls, pg, faultsLeft,
                           built, lastSent, schedulerSaw>>
    /\ UNCHANGED <<regResult, ret, stream, taskID, singlePiece,
                    disableAutoBackSource, limiter, ctxDone, needBackSource,
                    done, peerTaskDone, progressStopCh, failedCode, failedReason,
                    readyPieces, requestedPieces, totalPiece, contentLength,
                    completedLength, peerPacket, peerPacketReady, failedPieceCh,
                    pieceRequestCh, cur, coordPc, initPc, num, limit,
                    initialized, piecePacket, panicking, crashed, packetsLeft,
                    doneCloses, terminalEvents, failCalls, successSent,
                    downloadSourceCalls, firstFail, exitPacket, cancelFirst,
                    wokenByClose, coordStarts, pullStarts, takenFailed, dsResult,
                    pieceParallelCount, curPeerPacket, lastGood, lastRecv,
                    packetChanged, firstParallel, workersStarted, backSourceFrom,
                    wokenByPacket, limitRefused, fetchPc, attempts, tries,
                    rounds, fetchResult, nextNum, hostname, queueResult, peerMap,
                    hostPeers, hostMap, gcLock, gcPc, gcPeer, addPc,
                    deletedBusyHost>>

\* select { progressCh <- pg; <-ctx.Done() }
FinishSend(t) ==
    /\ At(t, "fin_send")
    /\ \/ /\ initPc = "listen"
          /\ terminalEvents' = Append(terminalEvents, pg)
          /\ initPc' = "ack"
       \/ /\ ctxDone
          /\ UNCHANGED <<terminalEvents, initPc>>
    /\ Goto(t, "fin_wait")
    /\ UNCHANGED <<regResult, ret, stream, taskID, singlePiece,
                    disableAutoBackSource, limiter, ctxDone, needBackSource,
                    done, once, peerTaskDone, progressStopCh, failedCode,
                    failedReason, readyPieces, requestedPieces, totalPiece,
                    contentLength, completedLength, peerPacket, peerPacketReady,
                    failedPieceCh, pieceRequestCh, stack, cur, coordPc, num,
                    limit, initialized, piecePacket, panicking, crashed, pg,
                    packetsLeft, faultsLeft, bodyRuns, doneCloses, failCalls,
                    doneCalls, successSent, endSent, downloadSourceCalls,
                    firstFail, exitPacket, cancelFirst, wokenByClose, built,
                    lastSent, schedulerSaw, coordStarts, pullStarts, takenFailed,
                    dsResult, pieceParallelCount, curPeerPacket, lastGood,
                    lastRecv, packetChanged, firstParallel, workersStarted,
                    backSourceFrom, wokenByPacket, limitRefused, fetchPc,
                    attempts, tries, rounds, fetchResult, nextNum, hostname,
                    queueResult, peerMap, hostPeers, hostMap, gcLock, gcPc,
                    gcPeer, addPc, deletedBusyHost>>

\* select { <-progressStopCh; <-ctx.Done() }; close(pt.done)
FinishClose(t) ==
    /\ At(t, "fin_wait")
    /\ ProgressStopped
    /\ done' = TRUE
    /\ doneCloses' = Min(doneCloses + 1, 2)
    /\ once' = "complete"
    /\ Return(t)
    /\ UNCHANGED <<regResult, ret, stream, taskID, singlePiece,
                    disableAutoBackSource, limiter, ctxDone, needBackSource,
                    peerTaskDone, progressStopCh, failedCode, failedReason,
                    readyPieces, requestedPieces, totalPiece, contentLength,
                    completedLength, peerPacket, peerPacketReady, failedPieceCh,
                    pieceRequestCh, cur, coordPc, initPc, num, limit,
                    initialized, piecePacket, panicking, crashed, pg,
                    packetsLeft, faultsLeft, bodyRuns, terminalEvents, failCalls,
                    doneCalls, successSent, endSent, downloadSourceCalls,
                    firstFail, exitPacket, cancelFirst, wokenByClose, built,
                    lastSent, schedulerSaw, coordStarts, pullStarts, takenFailed,
                    dsResult, pieceParallelCount, curPeerPacket, lastGood,
                    lastRecv, packetChanged, firstParallel, workersStarted,
                    backSourceFrom, wokenByPacket, limitRefused, fetchPc,
                    attempts, tries, rounds, fetchResult, nextNum, hostname,
                    queueResult, peerMap, hostPeers, hostMap, gcLock, gcPc,
                    gcPeer, addPc, deletedBusyHost>>

\* -------------------------------------------- filePeerTask.cleanUnfinished
\* once.Do of cleanUnfinished; the deferred pt.cancel() runs when Do returns
CleanOnce(t) ==
    /\ At(t, "cl_once")
    /\ IF OnceFresh
       THEN /\ once' = "running"
            /\ bodyRuns' = [bodyRuns EXCEPT !.clean = @ + 1]
            /\ built' = [exit |-> exitPacket, first |-> firstFail,
                         cancelFirst |-> cancelFirst]
            /\ endSent' = Min(endSent + 1, 2)
            /\ StreamSend("end", Cardinality(readyPieces), Cardinality(readyPieces))
            /\ pg' = [by |-> "clean", success |-> FALSE,
                      code |-> failedCode, msg |-> failedReason]
            /\ Goto(t, "cl_send")
            /\ UNCHANGED <<stack, ctxDone>>
       ELSE /\ once = "complete"
            /\ Cancel
            /\ Return(t)
            /\ UNCHANGED <<once, bodyRuns, endSent, pg, built, lastSent,
                           schedulerSaw>>
    /\ UNCHANGED <<regResult, ret, stream, taskID, singlePiece,
                    disableAutoBackSource, limiter, needBackSource, done,
                    peerTaskDone, progressStopCh, failedCode, failedReason,
                    readyPieces, requestedPieces, totalPiece, contentLength,
                    completedLength, peerPacket, peerPacketReady, failedPieceCh,
                    pieceRequestCh, cur, coordPc, initPc, num, limit,
                    initialized, piecePacket, panicking, crashed, packetsLeft,
                    faultsLeft, doneCloses, terminalEvents, failCalls, doneCalls,
                    successSent, downloadSourceCalls, firstFail, exitPacket,
                    cancelFirst, wokenByClose, coordStarts, pullStarts,
                    takenFailed, dsResult, pieceParallelCount, curPeerPacket,
                    lastGood, lastRecv, packetChanged, firstParallel,
                    workersStarted, backSourceFrom, wokenByPacket, limitRefused,
                    fetchPc, attempts, tries, rounds, fetchResult, nextNum,
                    hostname, queueResult, peerMap, hostPeers, hostMap, gcLock,
                    gcPc, gcPeer, addPc, deletedBusyHost>>

\* select { progressCh <- pg; <-ctx.Done() }
CleanSend(t) ==
    /\ At(t, "cl_send")
    /\ \/ /\ initPc = "listen"
          /\ terminalEvents' = Append(terminalEvents, pg)
          /\ initPc' = "ack"
       \/ /\ ctxDone
          /\ UNCHANGED <<terminalEvents, initPc>>
    /\ Goto(t, "cl_wait")
    /\ UNCHANGED <<regResult, ret, stream, taskID, singlePiece,
                    disableAutoBackSource, limiter, ctxDone, needBackSource,
                    done, once, peerTaskDone, progressStopCh, failedCode,
                    failedReason, readyPieces, requestedPieces, totalPiece,
                    contentLength, completedLength, peerPacket, peerPacketReady,
                    failedPieceCh, pieceRequestCh, stack, cur, coordPc, num,
                    limit, initialized, piecePacket, panicking, crashed, pg,
                    packetsLeft, faultsLeft, bodyRuns, doneCloses, failCalls,
                    doneCalls, successSent, endSent, downloadSourceCalls,
                    firstFail, exitPacket, cancelFirst, wokenByClose, built,
                    lastSent, schedulerSaw, coordStarts, pullStarts, takenFailed,
                    dsResult, pieceParallelCount, curPeerPacket, lastGood,
                    lastRecv, packetChanged, firstParallel, workersStarted,
                    backSourceFrom, wokenByPacket, limitRefused, fetchPc,
                    attempts, tries, rounds, fetchResult, nextNum, hostname,
                    queueResult, peerMap, hostPeers, hostMap, gcLock, gcPc,
                    gcPeer, addPc, deletedBusyHost>>

\* select { <-progressStopCh; <-ctx.Done() }; callback.Fail; close(pt.done);
\* then the deferred pt.cancel()
CleanClose(t) ==
    /\ At(t, "cl_wait")
    /\ ProgressStopped
    /\ failCalls' = Append(failCalls, [code |-> failedCode, reason |-> failedReason])
    /\ done' = TRUE
    /\ doneCloses' = Min(doneCloses + 1, 2)
    /\ once' = "complete"
    /\ Cancel
    /\ Return(t)
    /\ UNCHANGED <<regResult, ret, stream, taskID, singlePiece,
                    disableAutoBackSource, limiter, needBackSource, peerTaskDone,
                    progressStopCh, failedCode, failedReason, readyPieces,
                    requestedPieces, totalPiece, contentLength, completedLength,
                    peerPacket, peerPacketReady, failedPieceCh, pieceRequestCh,
                    cur, coordPc, initPc, num, limit, initialized, piecePacket,
                    panicking, crashed, pg, packetsLeft, faultsLeft, bodyRuns,
                    terminalEvents, doneCalls, successSent, endSent,
                    downloadSourceCalls, firstFail, exitPacket, cancelFirst,
                    wokenByClose, built, lastSent, schedulerSaw, coordStarts,
                    pullStarts, takenFailed, dsResult, pieceParallelCount,
                    curPeerPacket, lastGood, lastRecv, packetChanged,
                    firstParallel, workersStarted, backSourceFrom, wokenByPacket,
                    limitRefused, fetchPc, attempts, tries, rounds, fetchResult,
                    nextNum, hostname, queueResult, peerMap, hostPeers, hostMap,
                    gcLock, gcPc, gcPeer, addPc, deletedBusyHost>>

\* ---------------------------------------------------------- newFilePeerTask
\* a constructor that goes on to the source whatever the option says
AutoBackSourceNeverDisabled == FALSE

\* schedulerOption.DisableAutoBackSource, looked at when the registration failed
AutoBackSourceDisabled == disableAutoBackSource

\* a TinyData that drops the piece content
TinyDataWithoutContent(result) ==
    [TaskID |-> result.TaskId, PeerID |-> PeerID, Content |-> None]

\* &TinyData{TaskID: result.TaskId, PeerID: request.PeerId, Content: piece.PieceContent}
NewTinyData(result) ==
    [TaskID |-> result.TaskId, PeerID |-> PeerID, Content |-> result.direct]

\* return ctx, nil, tiny, err
NoTask(tiny, err) ==
    /\ ret' = [task |-> FALSE, tiny |-> tiny, err |-> err]
    /\ Goto(Main, "notask")
    /\ UNCHANGED <<stream, taskID, singlePiece, needBackSource, faultsLeft>>

\* schedulerClient.ReportPieceResult opens the stream of the client, then the
\* task is built and returned; the scheduler can refuse the stream, the
\* dummy client never does
NewTask(client, id, nbs, single) ==
    \/ /\ stream' = client
       /\ taskID' = id
       /\ needBackSource' = nbs
       /\ singlePiece' = single
       /\ ret' = [task |-> TRUE, tiny |-> NoTinyData, err |-> None]
       /\ Goto(Main, "start")
       /\ UNCHANGED faultsLeft
    \/ /\ client = "real"
       /\ InjectFault
       /\ ret' = [task |-> FALSE, tiny |-> NoTinyData,
                 err |-> "report piece result error"]
       /\ Goto(Main, "notask")
       /\ UNCHANGED <<stream, taskID, singlePiece, needBackSource>>

\* RegisterPeerTask returned regResult.  A failed registration ends the
\* construction when auto back-source is disabled and otherwise gives a task
\* with needBackSource, the dummy scheduler client and a task id of idgen; a
\* Tiny result returns its inline content and no task; a Small result with a
\* single piece sets singlePiece.
NewFilePeerTask ==
    /\ At(Main, "new")
    /\ IF regResult.err # None
       THEN IF AutoBackSourceDisabled
            THEN NoTask(NoTinyData, regResult.err)
            ELSE NewTask("dummy", IdgenTaskID, TRUE, FALSE)
       ELSE IF regResult.scope = "TINY"
            THEN IF regResult.direct \in Contents
                 THEN NoTask(NewTinyData(regResult), None)
                 ELSE NoTask(NoTinyData, "can not parse piece content")
            ELSE NewTask("real", regResult.TaskId, FALSE,
                         regResult.scope = "SMALL" /\ regResult.direct = "SinglePiece")
    /\ UNCHANGED <<regResult, disableAutoBackSource, limiter, ctxDone, done,
                    once, peerTaskDone, progressStopCh, failedCode, failedReason,
                    readyPieces, requestedPieces, totalPiece, contentLength,
                    completedLength, peerPacket, peerPacketReady, failedPieceCh,
                    pieceRequestCh, stack, cur, coordPc, initPc, num, limit,
                    initialized, piecePacket, panicking, crashed, pg,
                    packetsLeft, bodyRuns, doneCloses, terminalEvents, failCalls,
                    doneCalls, successSent, endSent, downloadSourceCalls,
                    firstFail, exitPacket, cancelFirst, wokenByClose, built,
                    lastSent, schedulerSaw, coordStarts, pullStarts, takenFailed,
                    dsResult, pieceParallelCount, curPeerPacket, lastGood,
                    lastRecv, packetChanged, firstParallel, workersStarted,
                    backSourceFrom, wokenByPacket, limitRefused, fetchPc,
                    attempts, tries, rounds, fetchResult, nextNum, hostname,
                    queueResult, peerMap, hostPeers, hostMap, gcLock, gcPc,
                    gcPeer, addPc, deletedBusyHost>>

\* --------------------------------------------------- filePeerTask.backSource
\* pt.backSource(): defer pt.cleanUnfinished(), then DownloadSource, which the
\* goroutine enters with no piece of the source reported yet; r is the label
\* the caller continues at
BackSource(r) ==
    /\ downloadSourceCalls' = Min(downloadSourceCalls + 1, 2)
    /\ backSourceFrom' = pc[Main]
    /\ cur' = [cur EXCEPT ![Main] = -1]
    /\ Call(Main, "ds_piece", r)

\* ------------------------------------------------------ filePeerTask.Start
\* a Start that does not look at needBackSource
NeverStartsBackSource == FALSE

\* if pt.needBackSource
StartsBackSource == needBackSource

\* needBackSource: go pt.backSource(); otherwise pullPieces, which starts
\* pullSinglePiece or receivePeerPacket and pullPiecesFromPeers
Start ==
    /\ At(Main, "start")
    /\ IF StartsBackSource
       THEN /\ contentLength' = -1
            /\ BackSource("exited")
            /\ UNCHANGED <<coordPc, coordStarts, pullStarts>>
       ELSE IF singlePiece
            THEN /\ Goto(Main, "single_init")
                 /\ UNCHANGED <<stack, coordPc, contentLength, cur,
                                downloadSourceCalls, backSourceFrom, coordStarts, pullStarts>>
            ELSE /\ Goto(Main, "waitFirst")
                 /\ coordPc' = "recv"
                 /\ coordStarts' = Min(coordStarts + 1, 2)
                 /\ pullStarts' = Min(pullStarts + 1, 2)
                 /\ UNCHANGED <<stack, contentLength, cur, downloadSourceCalls, backSourceFrom>>
    /\ UNCHANGED <<regResult, ret, stream, taskID, singlePiece,
                    disableAutoBackSource, limiter, ctxDone, needBackSource,
                    done, once, peerTaskDone, progressStopCh, failedCode,
                    failedReason, readyPieces, requestedPieces, totalPiece,
                    completedLength, peerPacket, peerPacketReady, failedPieceCh,
                    pieceRequestCh, initPc, num, limit, initialized, piecePacket,
                    panicking, crashed, pg, packetsLeft, faultsLeft, bodyRuns,
                    doneCloses, terminalEvents, failCalls, doneCalls,
                    successSent, endSent, firstFail, exitPacket, cancelFirst,
                    wokenByClose, built, lastSent, schedulerSaw, takenFailed,
                    dsResult, pieceParallelCount, curPeerPacket, lastGood,
                    lastRecv, packetChanged, firstParallel, workersStarted,
                    wokenByPacket, limitRefused, fetchPc, attempts, tries,
                    rounds, fetchResult, nextNum, hostname, queueResult, peerMap,
                    hostPeers, hostMap, gcLock, gcPc, gcPeer, addPc,
                    deletedBusyHost>>

\* ------------------------------------------------ peerTask.pullSinglePiece
\* contentLength.Store(RangeSize); callback.Init, whose error ends the task
PullSingleInit ==
    /\ At(Main, "single_init")
    /\ contentLength' = RangeSize(0)
    /\ \/ /\ Goto(Main, "single_dl")
          /\ UNCHANGED <<stack, failedCode, failedReason, firstFail, faultsLeft>>
       \/ /\ InjectFault
          /\ failedReason' = "init error"
          /\ failedCode' = "ClientError"
          /\ NoteFail("ClientError", "init error")
          /\ Call(Main, "cl_once", "exited")
    /\ UNCHANGED <<regResult, ret, stream, taskID, singlePiece,
                    disableAutoBackSource, limiter, ctxDone, needBackSource,
                    done, once, peerTaskDone, progressStopCh, readyPieces,
                    requestedPieces, totalPiece, completedLength, peerPacket,
                    peerPacketReady, failedPieceCh, pieceRequestCh, cur, coordPc,
                    initPc, num, limit, initialized, piecePacket, panicking,
                    crashed, pg, packetsLeft, bodyRuns, doneCloses,
                    terminalEvents, failCalls, doneCalls, successSent, endSent,
                    downloadSourceCalls, exitPacket, cancelFirst, wokenByClose,
                    built, lastSent, schedulerSaw, coordStarts, pullStarts,
                    takenFailed, dsResult, pieceParallelCount, curPeerPacket,
                    lastGood, lastRecv, packetChanged, firstParallel,
                    workersStarted, backSourceFrom, wokenByPacket, limitRefused,
                    fetchPc, attempts, tries, rounds, fetchResult, nextNum,
                    hostname, queueResult, peerMap, hostPeers, hostMap, gcLock,
                    gcPc, gcPeer, addPc, deletedBusyHost>>

\* pieceManager.DownloadPiece of the single piece; it reports its result
\* through ReportPieceResult and returns whether the download succeeded
PullSingleDownload ==
    /\ At(Main, "single_dl")
    /\ \/ ReportSuccess(Main, 0, "exited")
       \/ ReportFail(Main, 0, "single_fail")
    /\ UNCHANGED <<regResult, ret, stream, taskID, singlePiece,
                    disableAutoBackSource, limiter, ctxDone, needBackSource,
                    done, once, peerTaskDone, progressStopCh, failedCode,
                    failedReason, requestedPieces, totalPiece, contentLength,
                    peerPacket, peerPacketReady, pieceRequestCh, cur, coordPc,
                    initPc, num, limit, initialized, piecePacket, panicking,
                    crashed, pg, packetsLeft, faultsLeft, bodyRuns, doneCloses,
                    terminalEvents, failCalls, doneCalls, endSent,
                    downloadSourceCalls, firstFail, exitPacket, cancelFirst,
                    wokenByClose, built, coordStarts, pullStarts, takenFailed,
                    dsResult, pieceParallelCount, curPeerPacket, lastGood,
                    lastRecv, packetChanged, firstParallel, workersStarted,
                    backSourceFrom, wokenByPacket, limitRefused, fetchPc,
                    attempts, tries, rounds, fetchResult, nextNum, hostname,
                    queueResult, peerMap, hostPeers, hostMap, gcLock, gcPc,
                    gcPeer, addPc, deletedBusyHost>>

\* fallback: go pt.receivePeerPacket(); pt.pullPiecesFromPeers(...)
PullSingleFallback ==
    /\ At(Main, "single_fail")
    /\ coordPc' = "recv"
    /\ coordStarts' = Min(coordStarts + 1, 2)
    /\ pullStarts' = Min(pullStarts + 1, 2)
    /\ Goto(Main, "waitFirst")
    /\ UNCHANGED <<regResult, ret, stream, taskID, singlePiece,
                    disableAutoBackSource, limiter, ctxDone, needBackSource,
                    done, once, peerTaskDone, progressStopCh, failedCode,
                    failedReason, readyPieces, requestedPieces, totalPiece,
                    contentLength, completedLength, peerPacket, peerPacketReady,
                    failedPieceCh, pieceRequestCh, stack, cur, initPc, num,
                    limit, initialized, piecePacket, panicking, crashed, pg,
                    packetsLeft, faultsLeft, bodyRuns, doneCloses,
                    terminalEvents, failCalls, doneCalls, successSent, endSent,
                    downloadSourceCalls, firstFail, exitPacket, cancelFirst,
                    wokenByClose, built, lastSent, schedulerSaw, takenFailed,
                    dsResult, pieceParallelCount, curPeerPacket, lastGood,
                    lastRecv, packetChanged, firstParallel, workersStarted,
                    backSourceFrom, wokenByPacket, limitRefused, fetchPc,
                    attempts, tries, rounds, fetchResult, nextNum, hostname,
                    queueResult, peerMap, hostPeers, hostMap, gcLock, gcPc,
                    gcPeer, addPc, deletedBusyHost>>

\* ---------------------------------------------- peerTask.getNextPieceNum
\* for ; pt.requestedPieces.IsSet(i); i++ {} over the requested bits req
RECURSIVE FirstUnrequested(_, _)
FirstUnrequested(req, i) ==
    IF i \in req THEN FirstUnrequested(req, i + 1) ELSE i

\* a search that does not start again from piece 0
NextPieceNumNoRescan(req, c) ==
    IF isCompleted THEN -1 ELSE FirstUnrequested(req, c)

NextPieceNum(req, c) ==
    IF isCompleted THEN -1
    ELSE LET i == FirstUnrequested(req, c)
         IN IF totalPiece > 0 /\ i >= totalPiece
            THEN LET j == FirstUnrequested(req, 0)
                 IN IF totalPiece > 0 /\ j >= totalPiece THEN -1 ELSE j
            ELSE i

getNextPieceNum(c) == NextPieceNum(requestedPieces, c)

\* ------------------------------------------- peerTask.waitFirstPeerPacket
\* The case <-pt.peerPacketReady does not look at the ok of the receive: a
\* closed channel is taken for a packet, and the log line of the case asserts
\* the type of pt.peerPacket.Load(), which panics when no packet is stored.
WaitFirstPeerPacket ==
    /\ At(Main, "waitFirst")
    /\ \/ \* case <-pt.ctx.Done()
          /\ ctxDone
          /\ IF failedReason = failedReasonNotSet
             THEN /\ failedReason' = reasonContextCanceled
                  /\ NoteFail(None, reasonContextCanceled)
             ELSE UNCHANGED <<failedReason, firstFail>>
          /\ Goto(Main, "deferred")
          /\ UNCHANGED <<peerPacketReady, failedCode, needBackSource, stack,
                         cur, downloadSourceCalls, backSourceFrom, wokenByClose, panicking>>
       \/ \* case <-pt.peerPacketReady
          /\ peerPacketReady.buf > 0 \/ peerPacketReady.closed
          /\ peerPacketReady' = [peerPacketReady EXCEPT
                                   !.buf = IF @ > 0 THEN @ - 1 ELSE @]
          /\ wokenByClose' = (peerPacketReady.buf = 0)
          /\ IF peerPacket = NilPeerPacket
             THEN panicking' = TRUE /\ Goto(Main, "deferred")
             ELSE Goto(Main, "loopTop") /\ UNCHANGED panicking
          /\ UNCHANGED <<failedCode, failedReason, firstFail, needBackSource,
                         stack, cur, downloadSourceCalls, backSourceFrom>>
       \/ \* case <-time.After(ScheduleTimeout)
          /\ IF disableAutoBackSource
             THEN /\ failedReason' = reasonScheduleTimeout
                  /\ failedCode' = "ClientScheduleTimeout"
                  /\ NoteFail("ClientScheduleTimeout", reasonScheduleTimeout)
             ELSE UNCHANGED <<failedReason, failedCode, firstFail>>
          /\ needBackSource' = TRUE
          /\ BackSource("deferred")
          /\ UNCHANGED <<peerPacketReady, wokenByClose, panicking>>
    /\ UNCHANGED <<regResult, ret, stream, taskID, singlePiece,
                    disableAutoBackSource, limiter, ctxDone, done, once,
                    peerTaskDone, progressStopCh, readyPieces, requestedPieces,
                    totalPiece, contentLength, completedLength, peerPacket,
                    failedPieceCh, pieceRequestCh, coordPc, initPc, num, limit,
                    initialized, piecePacket, crashed, pg, packetsLeft,
                    faultsLeft, bodyRuns, doneCloses, terminalEvents, failCalls,
                    doneCalls, successSent, endSent, exitPacket, cancelFirst,
                    built, lastSent, schedulerSaw, coordStarts, pullStarts,
                    takenFailed, dsResult, pieceParallelCount, curPeerPacket,
                    lastGood, lastRecv, packetChanged, firstParallel,
                    workersStarted, wokenByPacket, limitRefused, fetchPc,
                    attempts, tries, rounds, fetchResult, nextNum, hostname,
                    queueResult, peerMap, hostPeers, hostMap, gcLock, gcPc,
                    gcPeer, addPc, deletedBusyHost>>

\* -------------------------------------------- peerTask.pullPiecesFromPeers
\* the select at the top of the loop
PullLoopTop ==
    /\ At(Main, "loopTop")
    /\ \/ /\ done
          /\ Goto(Main, "deferred")
          /\ UNCHANGED <<failedCode, failedReason, firstFail, failCalls,
                         failedPieceCh, num, limit, takenFailed>>
       \/ /\ ctxDone
          /\ IF peerTaskDone
             THEN UNCHANGED <<failedCode, failedReason, firstFail, failCalls>>
             ELSE IF failedCode = failedCodeNotSet
                  THEN /\ failedReason' = reasonContextCanceled
                       /\ failedCode' = "ClientContextCanceled"
                       /\ NoteFail("ClientContextCanceled", reasonContextCanceled)
                       /\ failCalls' = Append(failCalls,
                              [code |-> "ClientContextCanceled",
                               reason |-> reasonContextCanceled])
                  ELSE /\ failCalls' = Append(failCalls,
                              [code |-> failedCode, reason |-> failedReason])
                       /\ UNCHANGED <<failedCode, failedReason, firstFail>>
          /\ Goto(Main, "deferred")
          /\ UNCHANGED <<failedPieceCh, num, limit, takenFailed>>
       \/ /\ failedPieceCh.buf # <<>>
          /\ num' = Head(failedPieceCh.buf)
          /\ takenFailed' = Head(failedPieceCh.buf)
          /\ limit' = 1
          /\ failedPieceCh' = [failedPieceCh EXCEPT !.buf = Tail(@)]
          /\ Goto(Main, "prepare")
          /\ UNCHANGED <<failedCode, failedReason, firstFail, failCalls>>
       \/ \* default
          /\ ~done /\ ~ctxDone /\ failedPieceCh.buf = <<>>
          /\ Goto(Main, "prepare")
          /\ UNCHANGED <<failedCode, failedReason, firstFail, failCalls,
                         failedPieceCh, num, limit, takenFailed>>
    /\ UNCHANGED <<regResult, ret, stream, taskID, singlePiece,
                    disableAutoBackSource, limiter, ctxDone, needBackSource,
                    done, once, peerTaskDone, progressStopCh, readyPieces,
                    requestedPieces, totalPiece, contentLength, completedLength,
                    peerPacket, peerPacketReady, pieceRequestCh, stack, cur,
                    coordPc, initPc, initialized, piecePacket, panicking,
                    crashed, pg, packetsLeft, faultsLeft, bodyRuns, doneCloses,
                    terminalEvents, doneCalls, successSent, endSent,
                    downloadSourceCalls, exitPacket, cancelFirst, wokenByClose,
                    built, lastSent, schedulerSaw, coordStarts, pullStarts,
                    dsResult, pieceParallelCount, curPeerPacket, lastGood,
                    lastRecv, packetChanged, firstParallel, workersStarted,
                    backSourceFrom, wokenByPacket, limitRefused, fetchPc,
                    attempts, tries, rounds, fetchResult, nextNum, hostname,
                    queueResult, peerMap, hostPeers, hostMap, gcLock, gcPc,
                    gcPeer, addPc, deletedBusyHost>>

RECURSIVE Asc(_)
\* the piece infos of a piece packet, in ascending piece number
Asc(S) == IF S = {} THEN <<>>
          ELSE LET m == CHOOSE x \in S : \A y \in S : x <= y
               IN <<m>> \o Asc(S \ {m})

\* the pieces a peer can answer with for StartNum n and Limit l
Requestable(n, l) == {p \in TaskPieces : n >= 0 /\ p >= n /\ p < n + l}

\* the loop body after preparePieceTasks, entered with piece packet pp:
\* peerTask.init on the first pass (store the content length, callback.Init,
\* start ParallelCount workers), then the update of totalPiece.  A nil piece
\* packet is dereferenced and the goroutine panics.
PullInit(pp) ==
    /\ initialized' = TRUE
    /\ piecePacket' = pp
    /\ IF pp.nil
       THEN /\ panicking' = TRUE
            /\ Goto(Main, "deferred")
            /\ UNCHANGED <<contentLength, totalPiece, failedCode, failedReason,
                           firstFail, faultsLeft, workersStarted>>
       ELSE \/ /\ ~initialized
               /\ InjectFault
               /\ contentLength' = TotalLength
               /\ failedReason' = "init error"
               /\ failedCode' = "ClientError"
               /\ NoteFail("ClientError", "init error")
               /\ Goto(Main, "deferred")
               /\ UNCHANGED <<totalPiece, panicking, workersStarted>>
            \/ /\ contentLength' = IF initialized THEN contentLength ELSE TotalLength
               /\ workersStarted' = IF initialized THEN workersStarted
                                    ELSE peerPacket.ParallelCount
               /\ totalPiece' = IF TotalPiece > totalPiece THEN TotalPiece ELSE totalPiece
               /\ pc' = [t \in Threads |->
                           IF t = Main THEN "dispatch"
                           ELSE IF ~initialized /\ t <= peerPacket.ParallelCount
                                THEN "w_wait" ELSE pc[t]]
               /\ UNCHANGED <<failedCode, failedReason, firstFail, panicking,
                              faultsLeft>>

\* preparePieceTasks, label prepare: load the current peer packet and store
\* its ParallelCount; the calls to its peers follow.  With no peer packet
\* stored the type assertion on pt.peerPacket.Load() panics and
\* recoverFromPanic returns (nil, nil).
PreparePieceTasks ==
    /\ At(Main, "prepare")
    /\ takenFailed' = -1
    /\ IF peerPacket = NilPeerPacket
       THEN /\ PullInit(NilPiecePacket)
            /\ UNCHANGED <<curPeerPacket, pieceParallelCount>>
       ELSE /\ curPeerPacket' = peerPacket
            /\ pieceParallelCount' = peerPacket.ParallelCount
            /\ Goto(Main, "getPiece")
            /\ UNCHANGED <<initialized, piecePacket, panicking, contentLength,
                           totalPiece, failedCode, failedReason, firstFail,
                           faultsLeft, workersStarted>>
    /\ UNCHANGED <<regResult, ret, stream, taskID, singlePiece,
                    disableAutoBackSource, limiter, ctxDone, needBackSource,
                    done, once, peerTaskDone, progressStopCh, readyPieces,
                    requestedPieces, completedLength, peerPacket,
                    peerPacketReady, failedPieceCh, pieceRequestCh, stack, cur,
                    coordPc, initPc, num, limit, crashed, pg, packetsLeft,
                    bodyRuns, doneCloses, terminalEvents, failCalls, doneCalls,
                    successSent, endSent, downloadSourceCalls, exitPacket,
                    cancelFirst, wokenByClose, built, lastSent, schedulerSaw,
                    coordStarts, pullStarts, dsResult, lastGood, lastRecv,
                    packetChanged, firstParallel, backSourceFrom, wokenByPacket,
                    limitRefused, fetchPc, attempts, tries, rounds, fetchResult,
                    nextNum, hostname, queueResult, peerMap, hostPeers, hostMap,
                    gcLock, gcPc, gcPeer, addPc, deletedBusyHost>>

\* a getPieceTasks that never looks for a new peer packet
PeerPacketNeverChanged == FALSE

\* getPieceTasks found the main peer of the stored packet different from the
\* one of the packet preparePieceTasks loaded
PeerPacketChanged == curPeerPacket.MainPeer # peerPacket.MainPeer

\* preparePieceTasksByPeer for the main peer and then the steal peers of the
\* loaded packet, with StartNum num and Limit limit: a piece packet, or a call
\* that fails or returns no pieces.  On a failure getPieceTasks compares the
\* main peer of the loaded packet with the one of the stored packet: when
\* they differ it returns errPeerPacketChanged and preparePieceTasks starts
\* again (goto prepare), after a PieceResult with ClientWaitPieceReady when
\* the peer had returned no pieces.  Otherwise preparePieceTasksByPeer
\* reports the error to the scheduler in a PieceResult with FinishedCount -1,
\* unless the call was cancelled, and the error is returned.
GetPieceTasks ==
    /\ At(Main, "getPiece")
    /\ curPeerPacket' = NilPeerPacket
    /\ \/ /\ \E S \in (SUBSET Requestable(num, limit)) \ {{}} :
                 PullInit([nil |-> FALSE, PieceInfos |-> Asc(S)])
          /\ UNCHANGED <<lastSent, schedulerSaw, packetChanged>>
       \/ /\ \/ /\ Requestable(num, limit) # {}
                /\ InjectFault
             \/ /\ Requestable(num, limit) = {}
                /\ UNCHANGED faultsLeft
          /\ IF PeerPacketChanged
             THEN /\ packetChanged' = TRUE
                  /\ \/ StreamSend("waitPieceReady", Cardinality(readyPieces),
                                    Cardinality(readyPieces))
                     \/ UNCHANGED <<lastSent, schedulerSaw>>
                  /\ Goto(Main, "prepare")
                  /\ UNCHANGED piecePacket
             ELSE /\ \/ StreamSend("getPieceFail", -1, Cardinality(readyPieces))
                     \/ /\ ctxDone
                        /\ UNCHANGED <<lastSent, schedulerSaw>>
                  /\ piecePacket' = NilPiecePacket
                  /\ Goto(Main, "waitAvail")
                  /\ UNCHANGED packetChanged
          /\ UNCHANGED <<initialized, panicking, contentLength, totalPiece,
                         failedCode, failedReason, firstFail, workersStarted>>
    /\ UNCHANGED <<regResult, ret, stream, taskID, singlePiece,
                    disableAutoBackSource, limiter, ctxDone, needBackSource,
                    done, once, peerTaskDone, progressStopCh, readyPieces,
                    requestedPieces, completedLength, peerPacket,
                    peerPacketReady, failedPieceCh, pieceRequestCh, stack, cur,
                    coordPc, initPc, num, limit, crashed, pg, packetsLeft,
                    bodyRuns, doneCloses, terminalEvents, failCalls, doneCalls,
                    successSent, endSent, downloadSourceCalls, exitPacket,
                    cancelFirst, wokenByClose, built, coordStarts, pullStarts,
                    takenFailed, dsResult, pieceParallelCount, lastGood,
                    lastRecv, firstParallel, backSourceFrom, wokenByPacket,
                    limitRefused, fetchPc, attempts, tries, rounds, fetchResult,
                    nextNum, hostname, queueResult, peerMap, hostPeers, hostMap,
                    gcLock, gcPc, gcPeer, addPc, deletedBusyHost>>

\* ---------------------------------------- peerTask.waitAvailablePeerPacket
\* on a new packet the caller goes on with the loop body after the failed
\* preparePieceTasks (there is no continue), with the nil piece packet
WaitAvailablePeerPacket ==
    /\ At(Main, "waitAvail")
    /\ \/ /\ done
          /\ Goto(Main, "deferred")
          /\ UNCHANGED <<failedCode, failedReason, firstFail, peerPacketReady,
                         needBackSource, num, stack, cur, downloadSourceCalls, backSourceFrom,
                         initialized, workersStarted, piecePacket, panicking, contentLength,
                         totalPiece, faultsLeft, wokenByClose, wokenByPacket>>
       \/ /\ ctxDone
          /\ IF ~peerTaskDone /\ failedCode = failedCodeNotSet
             THEN /\ failedReason' = reasonContextCanceled
                  /\ failedCode' = "ClientContextCanceled"
                  /\ NoteFail("ClientContextCanceled", reasonContextCanceled)
             ELSE UNCHANGED <<failedCode, failedReason, firstFail>>
          /\ Goto(Main, "deferred")
          /\ UNCHANGED <<peerPacketReady, needBackSource, num, stack, cur,
                         downloadSourceCalls, backSourceFrom, initialized, workersStarted, piecePacket,
                         panicking, contentLength, totalPiece, faultsLeft, wokenByClose, wokenByPacket>>
       \/ \* case _, ok := <-pt.peerPacketReady, ok
          /\ peerPacketReady.buf > 0
          /\ peerPacketReady' = [peerPacketReady EXCEPT !.buf = @ - 1]
          /\ wokenByPacket' = TRUE
          /\ num' = getNextPieceNum(0)
          /\ PullInit(piecePacket)
          /\ UNCHANGED <<needBackSource, stack, cur, downloadSourceCalls, backSourceFrom,
                         wokenByClose>>
       \/ \* !ok: receivePeerPacket closed the channel
          /\ peerPacketReady.buf = 0 /\ peerPacketReady.closed
          /\ wokenByClose' = TRUE
          /\ IF disableAutoBackSource
             THEN /\ failedReason' = reasonReScheduleTimeout
                  /\ failedCode' = "ClientScheduleTimeout"
                  /\ NoteFail("ClientScheduleTimeout", reasonReScheduleTimeout)
                  /\ Goto(Main, "deferred")
                  /\ UNCHANGED <<needBackSource, stack, cur, downloadSourceCalls, backSourceFrom>>
             ELSE /\ needBackSource' = TRUE
                  /\ BackSource("deferred")
                  /\ UNCHANGED <<failedCode, failedReason, firstFail>>
          /\ UNCHANGED <<peerPacketReady, num, initialized, workersStarted, piecePacket,
                         panicking, contentLength, totalPiece, faultsLeft, wokenByPacket>>
       \/ \* case <-time.After(ScheduleTimeout)
          /\ IF disableAutoBackSource
             THEN /\ failedReason' = reasonReScheduleTimeout
                  /\ failedCode' = "ClientScheduleTimeout"
                  /\ NoteFail("ClientScheduleTimeout", reasonReScheduleTimeout)
             ELSE UNCHANGED <<failedReason, failedCode, firstFail>>
          /\ needBackSource' = TRUE
          /\ BackSource("deferred")
          /\ UNCHANGED <<peerPacketReady, num, initialized, workersStarted, piecePacket,
                         panicking, contentLength, totalPiece, faultsLeft, wokenByClose, wokenByPacket>>
    /\ UNCHANGED <<regResult, ret, stream, taskID, singlePiece,
                    disableAutoBackSource, limiter, ctxDone, done, once,
                    peerTaskDone, progressStopCh, readyPieces, requestedPieces,
                    completedLength, peerPacket, failedPieceCh, pieceRequestCh,
                    coordPc, initPc, limit, crashed, pg, packetsLeft, bodyRuns,
                    doneCloses, terminalEvents, failCalls, doneCalls,
                    successSent, endSent, exitPacket, cancelFirst, built,
                    lastSent, schedulerSaw, coordStarts, pullStarts, takenFailed,
                    dsResult, pieceParallelCount, curPeerPacket, lastGood,
                    lastRecv, packetChanged, firstParallel, limitRefused,
                    fetchPc, attempts, tries, rounds, fetchResult, nextNum,
                    hostname, queueResult, peerMap, hostPeers, hostMap, gcLock,
                    gcPc, gcPeer, addPc, deletedBusyHost>>

\* ------------------------------------------ peerTask.dispatchPieceRequest
\* one piece of the packet: set its requested bit, then
\* select { pieceRequestCh <- req; <-pt.done; <-pt.ctx.Done() }.
\* After the last piece: num = getNextPieceNum(num); with -1 the loop waits
\* for failed pieces unless waitFailedPiece finds the task completed.
DispatchPieceRequest ==
    /\ At(Main, "dispatch")
    /\ piecePacket.PieceInfos # <<>>
    /\ requestedPieces' = requestedPieces \cup {Head(piecePacket.PieceInfos)}
    /\ piecePacket' = [piecePacket EXCEPT !.PieceInfos = Tail(@)]
    /\ \/ /\ Len(pieceRequestCh) < DefaultPieceChanSize
          /\ pieceRequestCh' = Append(pieceRequestCh, Head(piecePacket.PieceInfos))
          /\ UNCHANGED <<failedCode, failedReason, firstFail>>
       \/ /\ done
          /\ UNCHANGED <<pieceRequestCh, failedCode, failedReason, firstFail>>
       \/ /\ ctxDone
          /\ IF ~peerTaskDone /\ failedCode = failedCodeNotSet
             THEN /\ failedReason' = reasonContextCanceled
                  /\ failedCode' = "ClientContextCanceled"
                  /\ NoteFail("ClientContextCanceled", reasonContextCanceled)
             ELSE UNCHANGED <<failedCode, failedReason, firstFail>>
          /\ UNCHANGED pieceRequestCh
    /\ IF Tail(piecePacket.PieceInfos) # <<>>
       THEN UNCHANGED <<pc, num, limit>>
       ELSE LET n == NextPieceNum(requestedPieces', num)
            IN /\ num' = n
               /\ IF n # -1
                  THEN limit' = DefaultPieceChanSize /\ Goto(Main, "loopTop")
                  ELSE /\ limit' = 1
                       /\ IF isCompleted THEN Goto(Main, "deferred")
                          ELSE Goto(Main, "waitFailed")
    /\ UNCHANGED <<regResult, ret, stream, taskID, singlePiece,
                    disableAutoBackSource, limiter, ctxDone, needBackSource,
                    done, once, peerTaskDone, progressStopCh, readyPieces,
                    totalPiece, contentLength, completedLength, peerPacket,
                    peerPacketReady, failedPieceCh, stack, cur, coordPc, initPc,
                    initialized, panicking, crashed, pg, packetsLeft, faultsLeft,
                    bodyRuns, doneCloses, terminalEvents, failCalls, doneCalls,
                    successSent, endSent, downloadSourceCalls, exitPacket,
                    cancelFirst, wokenByClose, built, lastSent, schedulerSaw,
                    coordStarts, pullStarts, takenFailed, dsResult,
                    pieceParallelCount, curPeerPacket, lastGood, lastRecv,
                    packetChanged, firstParallel, workersStarted, backSourceFrom,
                    wokenByPacket, limitRefused, fetchPc, attempts, tries,
                    rounds, fetchResult, nextNum, hostname, queueResult, peerMap,
                    hostPeers, hostMap, gcLock, gcPc, gcPeer, addPc,
                    deletedBusyHost>>

\* ------------------------------------------------ peerTask.waitFailedPiece
WaitFailedPiece ==
    /\ At(Main, "waitFailed")
    /\ \/ /\ done
          /\ Goto(Main, "deferred")
          /\ UNCHANGED <<failedCode, failedReason, firstFail, failedPieceCh, num,
                         takenFailed>>
       \/ /\ ctxDone
          /\ IF ~peerTaskDone /\ failedCode = failedCodeNotSet
             THEN /\ failedReason' = reasonContextCanceled
                  /\ failedCode' = "ClientContextCanceled"
                  /\ NoteFail("ClientContextCanceled", reasonContextCanceled)
             ELSE UNCHANGED <<failedCode, failedReason, firstFail>>
          /\ Goto(Main, "deferred")
          /\ UNCHANGED <<failedPieceCh, num, takenFailed>>
       \/ /\ failedPieceCh.buf # <<>>
          /\ failedPieceCh' = [failedPieceCh EXCEPT !.buf = Tail(@)]
          /\ takenFailed' = Head(failedPieceCh.buf)
          /\ num' = -1
          /\ Goto(Main, "loopTop")
          /\ UNCHANGED <<failedCode, failedReason, firstFail>>
    /\ UNCHANGED <<regResult, ret, stream, taskID, singlePiece,
                    disableAutoBackSource, limiter, ctxDone, needBackSource,
                    done, once, peerTaskDone, progressStopCh, readyPieces,
                    requestedPieces, totalPiece, contentLength, completedLength,
                    peerPacket, peerPacketReady, pieceRequestCh, stack, cur,
                    coordPc, initPc, limit, initialized, piecePacket, panicking,
                    crashed, pg, packetsLeft, faultsLeft, bodyRuns, doneCloses,
                    terminalEvents, failCalls, doneCalls, successSent, endSent,
                    downloadSourceCalls, exitPacket, cancelFirst, wokenByClose,
                    built, lastSent, schedulerSaw, coordStarts, pullStarts,
                    dsResult, pieceParallelCount, curPeerPacket, lastGood,
                    lastRecv, packetChanged, firstParallel, workersStarted,
                    backSourceFrom, wokenByPacket, limitRefused, fetchPc,
                    attempts, tries, rounds, fetchResult, nextNum, hostname,
                    queueResult, peerMap, hostPeers, hostMap, gcLock, gcPc,
                    gcPeer, addPc, deletedBusyHost>>

\* the deferred function of pullPiecesFromPeers:
\* close(pt.failedPieceCh); cleanUnfinishedFunc()
PullDeferred ==
    /\ At(Main, "deferred")
    /\ failedPieceCh' = [failedPieceCh EXCEPT !.closed = TRUE]
    /\ Call(Main, "cl_once", "pullExit")
    /\ UNCHANGED <<regResult, ret, stream, taskID, singlePiece,
                    disableAutoBackSource, limiter, ctxDone, needBackSource,
                    done, once, peerTaskDone, progressStopCh, failedCode,
                    failedReason, readyPieces, requestedPieces, totalPiece,
                    contentLength, completedLength, peerPacket, peerPacketReady,
                    pieceRequestCh, cur, coordPc, initPc, num, limit,
                    initialized, piecePacket, panicking, crashed, pg,
                    packetsLeft, faultsLeft, bodyRuns, doneCloses,
                    terminalEvents, failCalls, doneCalls, successSent, endSent,
                    downloadSourceCalls, firstFail, exitPacket, cancelFirst,
                    wokenByClose, built, lastSent, schedulerSaw, coordStarts,
                    pullStarts, takenFailed, dsResult, pieceParallelCount,
                    curPeerPacket, lastGood, lastRecv, packetChanged,
                    firstParallel, workersStarted, backSourceFrom, wokenByPacket,
                    limitRefused, fetchPc, attempts, tries, rounds, fetchResult,
                    nextNum, hostname, queueResult, peerMap, hostPeers, hostMap,
                    gcLock, gcPc, gcPeer, addPc, deletedBusyHost>>

\* the goroutine ends; an unrecovered panic ends the process
PullExit ==
    /\ At(Main, "pullExit")
    /\ crashed' = panicking
    /\ Goto(Main, "exited")
    /\ UNCHANGED <<regResult, ret, stream, taskID, singlePiece,
                    disableAutoBackSource, limiter, ctxDone, needBackSource,
                    done, once, peerTaskDone, progressStopCh, failedCode,
                    failedReason, readyPieces, requestedPieces, totalPiece,
                    contentLength, completedLength, peerPacket, peerPacketReady,
                    failedPieceCh, pieceRequestCh, stack, cur, coordPc, initPc,
                    num, limit, initialized, piecePacket, panicking, pg,
                    packetsLeft, faultsLeft, bodyRuns, doneCloses,
                    terminalEvents, failCalls, doneCalls, successSent, endSent,
                    downloadSourceCalls, firstFail, exitPacket, cancelFirst,
                    wokenByClose, built, lastSent, schedulerSaw, coordStarts,
                    pullStarts, takenFailed, dsResult, pieceParallelCount,
                    curPeerPacket, lastGood, lastRecv, packetChanged,
                    firstParallel, workersStarted, backSourceFrom, wokenByPacket,
                    limitRefused, fetchPc, attempts, tries, rounds, fetchResult,
                    nextNum, hostname, queueResult, peerMap, hostPeers, hostMap,
                    gcLock, gcPc, gcPeer, addPc, deletedBusyHost>>

\* ------------------------------------------------ pieceManager.DownloadSource
\* DownloadSource reports the pieces of the source one after the other
DownloadSourcePiece ==
    /\ At(Main, "ds_piece")
    /\ cur[Main] + 1 < TotalPiece
    /\ cur' = [cur EXCEPT ![Main] = @ + 1]
    /\ ReportSuccess(Main, cur[Main] + 1, "ds_piece")
    /\ UNCHANGED <<regResult, ret, stream, taskID, singlePiece,
                    disableAutoBackSource, limiter, ctxDone, needBackSource,
                    done, once, peerTaskDone, progressStopCh, failedCode,
                    failedReason, requestedPieces, totalPiece, contentLength,
                    peerPacket, peerPacketReady, pieceRequestCh, coordPc, initPc,
                    num, limit, initialized, piecePacket, panicking, crashed, pg,
                    packetsLeft, faultsLeft, bodyRuns, doneCloses,
                    terminalEvents, failCalls, doneCalls, endSent,
                    downloadSourceCalls, firstFail, exitPacket, cancelFirst,
                    wokenByClose, built, coordStarts, pullStarts, takenFailed,
                    dsResult, pieceParallelCount, curPeerPacket, lastGood,
                    lastRecv, packetChanged, firstParallel, workersStarted,
                    backSourceFrom, wokenByPacket, limitRefused, fetchPc,
                    attempts, tries, rounds, fetchResult, nextNum, hostname,
                    queueResult, peerMap, hostPeers, hostMap, gcLock, gcPc,
                    gcPeer, addPc, deletedBusyHost>>

\* after the last piece DownloadSource calls SetContentLength, which stores
\* the length and calls finish when the task is completed
SetContentLength ==
    /\ At(Main, "ds_piece")
    /\ cur[Main] + 1 = TotalPiece
    /\ contentLength' = TotalLength
    /\ IF completedLength = TotalLength
       THEN Call(Main, "fin_once", "bs_ok")
       ELSE Goto(Main, "bs_err") /\ UNCHANGED stack
    /\ UNCHANGED <<regResult, ret, stream, taskID, singlePiece,
                    disableAutoBackSource, limiter, ctxDone, needBackSource,
                    done, once, peerTaskDone, progressStopCh, failedCode,
                    failedReason, readyPieces, requestedPieces, totalPiece,
                    completedLength, peerPacket, peerPacketReady, failedPieceCh,
                    pieceRequestCh, cur, coordPc, initPc, num, limit,
                    initialized, piecePacket, panicking, crashed, pg,
                    packetsLeft, faultsLeft, bodyRuns, doneCloses,
                    terminalEvents, failCalls, doneCalls, successSent, endSent,
                    downloadSourceCalls, firstFail, exitPacket, cancelFirst,
                    wokenByClose, built, lastSent, schedulerSaw, coordStarts,
                    pullStarts, takenFailed, dsResult, pieceParallelCount,
                    curPeerPacket, lastGood, lastRecv, packetChanged,
                    firstParallel, workersStarted, backSourceFrom, wokenByPacket,
                    limitRefused, fetchPc, attempts, tries, rounds, fetchResult,
                    nextNum, hostname, queueResult, peerMap, hostPeers, hostMap,
                    gcLock, gcPc, gcPeer, addPc, deletedBusyHost>>

\* DownloadSource returns an error
DownloadSourceError ==
    /\ At(Main, "ds_piece")
    /\ \/ ctxDone /\ UNCHANGED faultsLeft
       \/ ~ctxDone /\ InjectFault
    /\ Goto(Main, "bs_err")
    /\ UNCHANGED <<regResult, ret, stream, taskID, singlePiece,
                    disableAutoBackSource, limiter, ctxDone, needBackSource,
                    done, once, peerTaskDone, progressStopCh, failedCode,
                    failedReason, readyPieces, requestedPieces, totalPiece,
                    contentLength, completedLength, peerPacket, peerPacketReady,
                    failedPieceCh, pieceRequestCh, stack, cur, coordPc, initPc,
                    num, limit, initialized, piecePacket, panicking, crashed, pg,
                    packetsLeft, bodyRuns, doneCloses, terminalEvents, failCalls,
                    doneCalls, successSent, endSent, downloadSourceCalls,
                    firstFail, exitPacket, cancelFirst, wokenByClose, built,
                    lastSent, schedulerSaw, coordStarts, pullStarts, takenFailed,
                    dsResult, pieceParallelCount, curPeerPacket, lastGood,
                    lastRecv, packetChanged, firstParallel, workersStarted,
                    backSourceFrom, wokenByPacket, limitRefused, fetchPc,
                    attempts, tries, rounds, fetchResult, nextNum, hostname,
                    queueResult, peerMap, hostPeers, hostMap, gcLock, gcPc,
                    gcPeer, addPc, deletedBusyHost>>

\* err != nil: pt.failedReason = err.Error(); the deferred cleanUnfinished
BackSourceFailed ==
    /\ At(Main, "bs_err")
    /\ failedReason' = "download from source error"
    /\ dsResult' = "err"
    /\ NoteFail(None, "download from source error")
    /\ Goto(Main, "cl_once")
    /\ UNCHANGED <<regResult, ret, stream, taskID, singlePiece,
                    disableAutoBackSource, limiter, ctxDone, needBackSource,
                    done, once, peerTaskDone, progressStopCh, failedCode,
                    readyPieces, requestedPieces, totalPiece, contentLength,
                    completedLength, peerPacket, peerPacketReady, failedPieceCh,
                    pieceRequestCh, stack, cur, coordPc, initPc, num, limit,
                    initialized, piecePacket, panicking, crashed, pg,
                    packetsLeft, faultsLeft, bodyRuns, doneCloses,
                    terminalEvents, failCalls, doneCalls, successSent, endSent,
                    downloadSourceCalls, exitPacket, cancelFirst, wokenByClose,
                    built, lastSent, schedulerSaw, coordStarts, pullStarts,
                    takenFailed, pieceParallelCount, curPeerPacket, lastGood,
                    lastRecv, packetChanged, firstParallel, workersStarted,
                    backSourceFrom, wokenByPacket, limitRefused, fetchPc,
                    attempts, tries, rounds, fetchResult, nextNum, hostname,
                    queueResult, peerMap, hostPeers, hostMap, gcLock, gcPc,
                    gcPeer, addPc, deletedBusyHost>>

\* err == nil: pt.finish(), then the deferred cleanUnfinished
BackSourceOk ==
    /\ At(Main, "bs_ok")
    /\ dsResult' = "ok"
    /\ Call(Main, "fin_once", "cl_once")
    /\ UNCHANGED <<regResult, ret, stream, taskID, singlePiece,
                    disableAutoBackSource, limiter, ctxDone, needBackSource,
                    done, once, peerTaskDone, progressStopCh, failedCode,
                    failedReason, readyPieces, requestedPieces, totalPiece,
                    contentLength, completedLength, peerPacket, peerPacketReady,
                    failedPieceCh, pieceRequestCh, cur, coordPc, initPc, num,
                    limit, initialized, piecePacket, panicking, crashed, pg,
                    packetsLeft, faultsLeft, bodyRuns, doneCloses,
                    terminalEvents, failCalls, doneCalls, successSent, endSent,
                    downloadSourceCalls, firstFail, exitPacket, cancelFirst,
                    wokenByClose, built, lastSent, schedulerSaw, coordStarts,
                    pullStarts, takenFailed, pieceParallelCount, curPeerPacket,
                    lastGood, lastRecv, packetChanged, firstParallel,
                    workersStarted, backSourceFrom, wokenByPacket, limitRefused,
                    fetchPc, attempts, tries, rounds, fetchResult, nextNum,
                    hostname, queueResult, peerMap, hostPeers, hostMap, gcLock,
                    gcPc, gcPeer, addPc, deletedBusyHost>>

\* -------------------------------------------- peerTask.downloadPieceWorker
\* select { request := <-requests; <-pt.done; <-pt.ctx.Done() }; a request
\* for a piece that is already ready is skipped
WorkerReceive(w) ==
    /\ At(w, "w_wait")
    /\ pieceRequestCh # <<>>
    /\ pieceRequestCh' = Tail(pieceRequestCh)
    /\ IF Head(pieceRequestCh) \in readyPieces
       THEN UNCHANGED <<pc, cur>>
       ELSE /\ cur' = [cur EXCEPT ![w] = Head(pieceRequestCh)]
            /\ Goto(w, "w_work")
    /\ UNCHANGED <<regResult, ret, stream, taskID, singlePiece,
                    disableAutoBackSource, limiter, ctxDone, needBackSource,
                    done, once, peerTaskDone, progressStopCh, failedCode,
                    failedReason, readyPieces, requestedPieces, totalPiece,
                    contentLength, completedLength, peerPacket, peerPacketReady,
                    failedPieceCh, stack, coordPc, initPc, num, limit,
                    initialized, piecePacket, panicking, crashed, pg,
                    packetsLeft, faultsLeft, bodyRuns, doneCloses,
                    terminalEvents, failCalls, doneCalls, successSent, endSent,
                    downloadSourceCalls, firstFail, exitPacket, cancelFirst,
                    wokenByClose, built, lastSent, schedulerSaw, coordStarts,
                    pullStarts, takenFailed, dsResult, pieceParallelCount,
                    curPeerPacket, lastGood, lastRecv, packetChanged,
                    firstParallel, workersStarted, backSourceFrom, wokenByPacket,
                    limitRefused, fetchPc, attempts, tries, rounds, fetchResult,
                    nextNum, hostname, queueResult, peerMap, hostPeers, hostMap,
                    gcLock, gcPc, gcPeer, addPc, deletedBusyHost>>

WorkerExit(w) ==
    /\ At(w, "w_wait")
    /\ done \/ ctxDone
    /\ Goto(w, "exited")
    /\ UNCHANGED <<regResult, ret, stream, taskID, singlePiece,
                    disableAutoBackSource, limiter, ctxDone, needBackSource,
                    done, once, peerTaskDone, progressStopCh, failedCode,
                    failedReason, readyPieces, requestedPieces, totalPiece,
                    contentLength, completedLength, peerPacket, peerPacketReady,
                    failedPieceCh, pieceRequestCh, stack, cur, coordPc, initPc,
                    num, limit, initialized, piecePacket, panicking, crashed, pg,
                    packetsLeft, faultsLeft, bodyRuns, doneCloses,
                    terminalEvents, failCalls, doneCalls, successSent, endSent,
                    downloadSourceCalls, firstFail, exitPacket, cancelFirst,
                    wokenByClose, built, lastSent, schedulerSaw, coordStarts,
                    pullStarts, takenFailed, dsResult, pieceParallelCount,
                    curPeerPacket, lastGood, lastRecv, packetChanged,
                    firstParallel, workersStarted, backSourceFrom, wokenByPacket,
                    limitRefused, fetchPc, attempts, tries, rounds, fetchResult,
                    nextNum, hostname, queueResult, peerMap, hostPeers, hostMap,
                    gcLock, gcPc, gcPeer, addPc, deletedBusyHost>>

\* pt.limiter.WaitN(pt.ctx, RangeSize) when a limiter is set: an error when
\* the context is done or the limiter refuses, and the worker reports the
\* piece as failed with ClientRequestLimitFail.  Otherwise
\* pieceManager.DownloadPiece, which reports the result of the download.
WorkerWork(w) ==
    /\ At(w, "w_work")
    /\ cur' = [cur EXCEPT ![w] = 0]
    /\ \/ /\ limiter /\ ctxDone
          /\ ReportFail(w, cur[w], "w_limfail")
          /\ UNCHANGED <<faultsLeft, limitRefused>>
       \/ /\ limiter /\ ~ctxDone /\ InjectFault
          /\ limitRefused' = TRUE
          /\ ReportFail(w, cur[w], "w_limfail")
       \/ /\ ~limiter \/ ~ctxDone
          /\ UNCHANGED limitRefused
          /\ \/ /\ ReportSuccess(w, cur[w], "w_wait")
                /\ UNCHANGED faultsLeft
             \/ /\ ctxDone
                /\ ReportFail(w, cur[w], "w_wait")
                /\ UNCHANGED faultsLeft
             \/ /\ ~ctxDone /\ InjectFault
                /\ ReportFail(w, cur[w], "w_wait")
    /\ UNCHANGED <<regResult, ret, stream, taskID, singlePiece,
                    disableAutoBackSource, limiter, ctxDone, needBackSource,
                    done, once, peerTaskDone, progressStopCh, failedCode,
                    failedReason, requestedPieces, totalPiece, contentLength,
                    peerPacket, peerPacketReady, pieceRequestCh, coordPc, initPc,
                    num, limit, initialized, piecePacket, panicking, crashed, pg,
                    packetsLeft, bodyRuns, doneCloses, terminalEvents, failCalls,
                    doneCalls, endSent, downloadSourceCalls, firstFail,
                    exitPacket, cancelFirst, wokenByClose, built, coordStarts,
                    pullStarts, takenFailed, dsResult, pieceParallelCount,
                    curPeerPacket, lastGood, lastRecv, packetChanged,
                    firstParallel, workersStarted, backSourceFrom, wokenByPacket,
                    fetchPc, attempts, tries, rounds, fetchResult, nextNum,
                    hostname, queueResult, peerMap, hostPeers, hostMap, gcLock,
                    gcPc, gcPeer, addPc, deletedBusyHost>>

\* after the report: failedReason, failedCode = ClientRequestLimitFail,
\* pt.cancel(), return
WorkerLimitFail(w) ==
    /\ At(w, "w_limfail")
    /\ failedReason' = "request limiter error"
    /\ failedCode' = "ClientRequestLimitFail"
    /\ NoteFail("ClientRequestLimitFail", "request limiter error")
    /\ Cancel
    /\ Goto(w, "exited")
    /\ UNCHANGED <<regResult, ret, stream, taskID, singlePiece,
                    disableAutoBackSource, limiter, needBackSource, done, once,
                    peerTaskDone, progressStopCh, readyPieces, requestedPieces,
                    totalPiece, contentLength, completedLength, peerPacket,
                    peerPacketReady, failedPieceCh, pieceRequestCh, stack, cur,
                    coordPc, initPc, num, limit, initialized, piecePacket,
                    panicking, crashed, pg, packetsLeft, faultsLeft, bodyRuns,
                    doneCloses, terminalEvents, failCalls, doneCalls,
                    successSent, endSent, downloadSourceCalls, exitPacket,
                    cancelFirst, wokenByClose, built, lastSent, schedulerSaw,
                    coordStarts, pullStarts, takenFailed, dsResult,
                    pieceParallelCount, curPeerPacket, lastGood, lastRecv,
                    packetChanged, firstParallel, workersStarted, backSourceFrom,
                    wokenByPacket, limitRefused, fetchPc, attempts, tries,
                    rounds, fetchResult, nextNum, hostname, queueResult, peerMap,
                    hostPeers, hostMap, gcLock, gcPc, gcPeer, addPc,
                    deletedBusyHost>>

\* ---------------------------------------------- peerTask.receivePeerPacket
\* the select at the top of the loop: break on ctx.Done or done.  Otherwise
\* the goroutine is in peerPacketStream.Recv, which the task context does not
\* interrupt: a result can arrive after the context is done
CoordStop ==
    /\ ~crashed /\ coordPc = "recv"
    /\ ctxDone \/ done
    /\ coordPc' = "exited"
    /\ UNCHANGED <<regResult, ret, stream, taskID, singlePiece,
                    disableAutoBackSource, limiter, ctxDone, needBackSource,
                    done, once, peerTaskDone, progressStopCh, failedCode,
                    failedReason, readyPieces, requestedPieces, totalPiece,
                    contentLength, completedLength, peerPacket, peerPacketReady,
                    failedPieceCh, pieceRequestCh, pc, stack, cur, initPc, num,
                    limit, initialized, piecePacket, panicking, crashed, pg,
                    packetsLeft, faultsLeft, bodyRuns, doneCloses,
                    terminalEvents, failCalls, doneCalls, successSent, endSent,
                    downloadSourceCalls, firstFail, exitPacket, cancelFirst,
                    wokenByClose, built, lastSent, schedulerSaw, coordStarts,
                    pullStarts, takenFailed, dsResult, pieceParallelCount,
                    curPeerPacket, lastGood, lastRecv, packetChanged,
                    firstParallel, workersStarted, backSourceFrom, wokenByPacket,
                    limitRefused, fetchPc, attempts, tries, rounds, fetchResult,
                    nextNum, hostname, queueResult, peerMap, hostPeers, hostMap,
                    gcLock, gcPc, gcPeer, addPc, deletedBusyHost>>

\* Recv returns io.EOF
RecvEOF ==
    /\ ~crashed /\ coordPc = "recv"
    /\ InjectFault
    /\ coordPc' = "exited"
    /\ UNCHANGED <<regResult, ret, stream, taskID, singlePiece,
                    disableAutoBackSource, limiter, ctxDone, needBackSource,
                    done, once, peerTaskDone, progressStopCh, failedCode,
                    failedReason, readyPieces, requestedPieces, totalPiece,
                    contentLength, completedLength, peerPacket, peerPacketReady,
                    failedPieceCh, pieceRequestCh, pc, stack, cur, initPc, num,
                    limit, initialized, piecePacket, panicking, crashed, pg,
                    packetsLeft, bodyRuns, doneCloses, terminalEvents, failCalls,
                    doneCalls, successSent, endSent, downloadSourceCalls,
                    firstFail, exitPacket, cancelFirst, wokenByClose, built,
                    lastSent, schedulerSaw, coordStarts, pullStarts, takenFailed,
                    dsResult, pieceParallelCount, curPeerPacket, lastGood,
                    lastRecv, packetChanged, firstParallel, workersStarted,
                    backSourceFrom, wokenByPacket, limitRefused, fetchPc,
                    attempts, tries, rounds, fetchResult, nextNum, hostname,
                    queueResult, peerMap, hostPeers, hostMap, gcLock, gcPc,
                    gcPeer, addPc, deletedBusyHost>>

\* Recv returns an error that is no DfError: failedCode = UnknownError, cancel
RecvError ==
    /\ ~crashed /\ coordPc = "recv"
    /\ InjectFault
    /\ failedCode' = "UnknownError"
    /\ NoteFail("UnknownError", None)
    /\ Cancel
    /\ coordPc' = "exited"
    /\ UNCHANGED <<regResult, ret, stream, taskID, singlePiece,
                    disableAutoBackSource, limiter, needBackSource, done, once,
                    peerTaskDone, progressStopCh, failedReason, readyPieces,
                    requestedPieces, totalPiece, contentLength, completedLength,
                    peerPacket, peerPacketReady, failedPieceCh, pieceRequestCh,
                    pc, stack, cur, initPc, num, limit, initialized, piecePacket,
                    panicking, crashed, pg, packetsLeft, bodyRuns, doneCloses,
                    terminalEvents, failCalls, doneCalls, successSent, endSent,
                    downloadSourceCalls, exitPacket, cancelFirst, wokenByClose,
                    built, lastSent, schedulerSaw, coordStarts, pullStarts,
                    takenFailed, dsResult, pieceParallelCount, curPeerPacket,
                    lastGood, lastRecv, packetChanged, firstParallel,
                    workersStarted, backSourceFrom, wokenByPacket, limitRefused,
                    fetchPc, attempts, tries, rounds, fetchResult, nextNum,
                    hostname, queueResult, peerMap, hostPeers, hostMap, gcLock,
                    gcPc, gcPeer, addPc, deletedBusyHost>>

\* Recv returns DfError{SchedNeedBackSource}: failedCode = UnknownError,
\* needBackSource = true, close(pt.peerPacketReady), return
RecvNeedBackSource ==
    /\ ~crashed /\ coordPc = "recv"
    /\ InjectFault
    /\ failedCode' = "UnknownError"
    /\ needBackSource' = TRUE
    /\ peerPacketReady' = [peerPacketReady EXCEPT !.closed = TRUE]
    /\ coordPc' = "exited"
    /\ UNCHANGED <<regResult, ret, stream, taskID, singlePiece,
                    disableAutoBackSource, limiter, ctxDone, done, once,
                    peerTaskDone, progressStopCh, failedReason, readyPieces,
                    requestedPieces, totalPiece, contentLength, completedLength,
                    peerPacket, failedPieceCh, pieceRequestCh, pc, stack, cur,
                    initPc, num, limit, initialized, piecePacket, panicking,
                    crashed, pg, packetsLeft, bodyRuns, doneCloses,
                    terminalEvents, failCalls, doneCalls, successSent, endSent,
                    downloadSourceCalls, firstFail, exitPacket, cancelFirst,
                    wokenByClose, built, lastSent, schedulerSaw, coordStarts,
                    pullStarts, takenFailed, dsResult, pieceParallelCount,
                    curPeerPacket, lastGood, lastRecv, packetChanged,
                    firstParallel, workersStarted, backSourceFrom, wokenByPacket,
                    limitRefused, fetchPc, attempts, tries, rounds, fetchResult,
                    nextNum, hostname, queueResult, peerMap, hostPeers, hostMap,
                    gcLock, gcPc, gcPeer, addPc, deletedBusyHost>>

\* Recv returns a DfError with another code: failedCode, failedReason, cancel
RecvDfError ==
    /\ ~crashed /\ coordPc = "recv"
    /\ InjectFault
    /\ failedCode' = "SchedPeerNotFound"
    /\ failedReason' = "stream error message"
    /\ NoteFail("SchedPeerNotFound", "stream error message")
    /\ Cancel
    /\ coordPc' = "exited"
    /\ UNCHANGED <<regResult, ret, stream, taskID, singlePiece,
                    disableAutoBackSource, limiter, needBackSource, done, once,
                    peerTaskDone, progressStopCh, readyPieces, requestedPieces,
                    totalPiece, contentLength, completedLength, peerPacket,
                    peerPacketReady, failedPieceCh, pieceRequestCh, pc, stack,
                    cur, initPc, num, limit, initialized, piecePacket, panicking,
                    crashed, pg, packetsLeft, bodyRuns, doneCloses,
                    terminalEvents, failCalls, doneCalls, successSent, endSent,
                    downloadSourceCalls, exitPacket, cancelFirst, wokenByClose,
                    built, lastSent, schedulerSaw, coordStarts, pullStarts,
                    takenFailed, dsResult, pieceParallelCount, curPeerPacket,
                    lastGood, lastRecv, packetChanged, firstParallel,
                    workersStarted, backSourceFrom, wokenByPacket, limitRefused,
                    fetchPc, attempts, tries, rounds, fetchResult, nextNum,
                    hostname, queueResult, peerMap, hostPeers, hostMap, gcLock,
                    gcPc, gcPeer, addPc, deletedBusyHost>>

\* a packet whose code is not Success: isExitPeerPacketCode records the code
\* and the reason of an exit code, every other code is only logged and the
\* loop continues
RecvCodePacket ==
    /\ ~crashed /\ coordPc = "recv"
    /\ InjectFault
    /\ \E code \in PacketCodes :
         /\ lastRecv' = code
         /\ IF isExitPeerPacketCode(code)
            THEN /\ failedCode' = code
                 /\ failedReason' = ExitReason(code)
                 /\ NoteFail(code, ExitReason(code))
                 /\ exitPacket' = code
                 /\ coordPc' = "cancel"
            ELSE UNCHANGED <<failedCode, failedReason, firstFail,
                             exitPacket, coordPc>>
    /\ UNCHANGED <<regResult, ret, stream, taskID, singlePiece,
                    disableAutoBackSource, limiter, ctxDone, needBackSource,
                    done, once, peerTaskDone, progressStopCh, readyPieces,
                    requestedPieces, totalPiece, contentLength, completedLength,
                    peerPacket, peerPacketReady, failedPieceCh, pieceRequestCh,
                    pc, stack, cur, initPc, num, limit, initialized, piecePacket,
                    panicking, crashed, pg, packetsLeft, bodyRuns, doneCloses,
                    terminalEvents, failCalls, doneCalls, successSent, endSent,
                    downloadSourceCalls, cancelFirst, wokenByClose, built,
                    lastSent, schedulerSaw, coordStarts, pullStarts, takenFailed,
                    dsResult, pieceParallelCount, curPeerPacket, lastGood,
                    packetChanged, firstParallel, workersStarted, backSourceFrom,
                    wokenByPacket, limitRefused, fetchPc, attempts, tries,
                    rounds, fetchResult, nextNum, hostname, queueResult, peerMap,
                    hostPeers, hostMap, gcLock, gcPc, gcPeer, addPc,
                    deletedBusyHost>>

\* pt.cancel() after an exit code, then break
CoordCancel ==
    /\ ~crashed /\ coordPc = "cancel"
    /\ Cancel
    /\ coordPc' = "exited"
    /\ UNCHANGED <<regResult, ret, stream, taskID, singlePiece,
                    disableAutoBackSource, limiter, needBackSource, done, once,
                    peerTaskDone, progressStopCh, failedCode, failedReason,
                    readyPieces, requestedPieces, totalPiece, contentLength,
                    completedLength, peerPacket, peerPacketReady, failedPieceCh,
                    pieceRequestCh, pc, stack, cur, initPc, num, limit,
                    initialized, piecePacket, panicking, crashed, pg,
                    packetsLeft, faultsLeft, bodyRuns, doneCloses,
                    terminalEvents, failCalls, doneCalls, successSent, endSent,
                    downloadSourceCalls, firstFail, exitPacket, cancelFirst,
                    wokenByClose, built, lastSent, schedulerSaw, coordStarts,
                    pullStarts, takenFailed, dsResult, pieceParallelCount,
                    curPeerPacket, lastGood, lastRecv, packetChanged,
                    firstParallel, workersStarted, backSourceFrom, wokenByPacket,
                    limitRefused, fetchPc, attempts, tries, rounds, fetchResult,
                    nextNum, hostname, queueResult, peerMap, hostPeers, hostMap,
                    gcLock, gcPc, gcPeer, addPc, deletedBusyHost>>

\* a Success packet without main peer and steal peers: continue
RecvEmptyPacket ==
    /\ ~crashed /\ coordPc = "recv"
    /\ InjectFault
    /\ lastRecv' = "empty"
    /\ UNCHANGED <<regResult, ret, stream, taskID, singlePiece,
                    disableAutoBackSource, limiter, ctxDone, needBackSource,
                    done, once, peerTaskDone, progressStopCh, failedCode,
                    failedReason, readyPieces, requestedPieces, totalPiece,
                    contentLength, completedLength, peerPacket, peerPacketReady,
                    failedPieceCh, pieceRequestCh, pc, stack, cur, coordPc,
                    initPc, num, limit, initialized, piecePacket, panicking,
                    crashed, pg, packetsLeft, bodyRuns, doneCloses,
                    terminalEvents, failCalls, doneCalls, successSent, endSent,
                    downloadSourceCalls, firstFail, exitPacket, cancelFirst,
                    wokenByClose, built, lastSent, schedulerSaw, coordStarts,
                    pullStarts, takenFailed, dsResult, pieceParallelCount,
                    curPeerPacket, lastGood, packetChanged, firstParallel,
                    workersStarted, backSourceFrom, wokenByPacket, limitRefused,
                    fetchPc, attempts, tries, rounds, fetchResult, nextNum,
                    hostname, queueResult, peerMap, hostPeers, hostMap, gcLock,
                    gcPc, gcPeer, addPc, deletedBusyHost>>

\* a Success packet with steal peers and no main peer passes the test for
\* empty peers; the log line after it reads peerPacket.MainPeer.PeerId of the
\* nil main peer, and the panic of the goroutine, which nothing recovers,
\* ends the process before the packet is stored
RecvStealPacket ==
    /\ ~crashed /\ coordPc = "recv"
    /\ InjectFault
    /\ \E pp \in StealPeerPackets : lastGood' = pp
    /\ lastRecv' = "Success"
    /\ crashed' = TRUE
    /\ UNCHANGED <<regResult, ret, stream, taskID, singlePiece,
                    disableAutoBackSource, limiter, ctxDone, needBackSource,
                    done, once, peerTaskDone, progressStopCh, failedCode,
                    failedReason, readyPieces, requestedPieces, totalPiece,
                    contentLength, completedLength, peerPacket, peerPacketReady,
                    failedPieceCh, pieceRequestCh, pc, stack, cur, coordPc,
                    initPc, num, limit, initialized, piecePacket, panicking, pg,
                    packetsLeft, bodyRuns, doneCloses, terminalEvents, failCalls,
                    doneCalls, successSent, endSent, downloadSourceCalls,
                    firstFail, exitPacket, cancelFirst, wokenByClose, built,
                    lastSent, schedulerSaw, coordStarts, pullStarts, takenFailed,
                    dsResult, pieceParallelCount, curPeerPacket, packetChanged,
                    firstParallel, workersStarted, backSourceFrom, wokenByPacket,
                    limitRefused, fetchPc, attempts, tries, rounds, fetchResult,
                    nextNum, hostname, queueResult, peerMap, hostPeers, hostMap,
                    gcLock, gcPc, gcPeer, addPc, deletedBusyHost>>

\* a Success packet with a main peer: pt.peerPacket.Store,
\* pt.pieceParallelCount.Store, then
\* select { peerPacketReady <- true; <-ctx.Done(); <-done; default }.
\* Peer ids are interchangeable: the first packet names P1.  A packet that
\* announces another ParallelCount than the packet before it is counted as
\* a disturbance.
RecvPeerPacket ==
    /\ ~crashed /\ coordPc = "recv" /\ packetsLeft > 0
    /\ packetsLeft' = packetsLeft - 1
    /\ \E pp \in MainPeerPackets :
         /\ peerPacket = NilPeerPacket => pp.MainPeer = "P1"
         /\ peerPacket' = pp
         /\ pieceParallelCount' = pp.ParallelCount
         /\ lastGood' = pp
         /\ firstParallel' = IF firstParallel = -1 THEN pp.ParallelCount
                              ELSE firstParallel
         /\ IF peerPacket # NilPeerPacket
               /\ pp.ParallelCount # peerPacket.ParallelCount
            THEN InjectFault
            ELSE UNCHANGED faultsLeft
    /\ lastRecv' = "Success"
    /\ \/ /\ peerPacketReady.buf = 0
          /\ peerPacketReady' = [peerPacketReady EXCEPT !.buf = 1]
          /\ UNCHANGED coordPc
       \/ /\ ctxDone \/ done
          /\ coordPc' = "exited"
          /\ UNCHANGED peerPacketReady
       \/ /\ peerPacketReady.buf = 1 /\ ~ctxDone /\ ~done
          /\ UNCHANGED <<peerPacketReady, coordPc>>
    /\ UNCHANGED <<regResult, ret, stream, taskID, singlePiece,
                    disableAutoBackSource, limiter, ctxDone, needBackSource,
                    done, once, peerTaskDone, progressStopCh, failedCode,
                    failedReason, readyPieces, requestedPieces, totalPiece,
                    contentLength, completedLength, failedPieceCh,
                    pieceRequestCh, pc, stack, cur, initPc, num, limit,
                    initialized, piecePacket, panicking, crashed, pg, bodyRuns,
                    doneCloses, terminalEvents, failCalls, doneCalls,
                    successSent, endSent, downloadSourceCalls, firstFail,
                    exitPacket, cancelFirst, wokenByClose, built, lastSent,
                    schedulerSaw, coordStarts, pullStarts, takenFailed, dsResult,
                    curPeerPacket, packetChanged, workersStarted, backSourceFrom,
                    wokenByPacket, limitRefused, fetchPc, attempts, tries,
                    rounds, fetchResult, nextNum, hostname, queueResult, peerMap,
                    hostPeers, hostMap, gcLock, gcPc, gcPeer, addPc,
                    deletedBusyHost>>

\* --------------------------------------------------------------- initiator
\* the initiator acknowledges the terminal event: DoneCallback sets
\* peerTaskDone and closes progressStopCh
DoneCallback ==
    /\ ~crashed /\ initPc = "ack"
    /\ peerTaskDone' = TRUE
    /\ progressStopCh' = TRUE
    /\ initPc' = "gone"
    /\ UNCHANGED <<regResult, ret, stream, taskID, singlePiece,
                    disableAutoBackSource, limiter, ctxDone, needBackSource,
                    done, once, failedCode, failedReason, readyPieces,
                    requestedPieces, totalPiece, contentLength, completedLength,
                    peerPacket, peerPacketReady, failedPieceCh, pieceRequestCh,
                    pc, stack, cur, coordPc, num, limit, initialized,
                    piecePacket, panicking, crashed, pg, packetsLeft, faultsLeft,
                    bodyRuns, doneCloses, terminalEvents, failCalls, doneCalls,
                    successSent, endSent, downloadSourceCalls, firstFail,
                    exitPacket, cancelFirst, wokenByClose, built, lastSent,
                    schedulerSaw, coordStarts, pullStarts, takenFailed, dsResult,
                    pieceParallelCount, curPeerPacket, lastGood, lastRecv,
                    packetChanged, firstParallel, workersStarted, backSourceFrom,
                    wokenByPacket, limitRefused, fetchPc, attempts, tries,
                    rounds, fetchResult, nextNum, hostname, queueResult, peerMap,
                    hostPeers, hostMap, gcLock, gcPc, gcPeer, addPc,
                    deletedBusyHost>>

\* the initiator cancels the context the task context derives from
InitiatorCancel ==
    /\ ~crashed /\ initPc = "listen" /\ ~ctxDone
    /\ pc[Main] \notin {"new", "notask", "start", "exited"}
    /\ InjectFault
    /\ Cancel
    /\ initPc' = "cancelled"
    /\ cancelFirst' = (firstFail = NoFail)
    /\ UNCHANGED <<regResult, ret, stream, taskID, singlePiece,
                    disableAutoBackSource, limiter, needBackSource, done, once,
                    peerTaskDone, progressStopCh, failedCode, failedReason,
                    readyPieces, requestedPieces, totalPiece, contentLength,
                    completedLength, peerPacket, peerPacketReady, failedPieceCh,
                    pieceRequestCh, pc, stack, cur, coordPc, num, limit,
                    initialized, piecePacket, panicking, crashed, pg,
                    packetsLeft, bodyRuns, doneCloses, terminalEvents, failCalls,
                    doneCalls, successSent, endSent, downloadSourceCalls,
                    firstFail, exitPacket, wokenByClose, built, lastSent,
                    schedulerSaw, coordStarts, pullStarts, takenFailed, dsResult,
                    pieceParallelCount, curPeerPacket, lastGood, lastRecv,
                    packetChanged, firstParallel, workersStarted, backSourceFrom,
                    wokenByPacket, limitRefused, fetchPc, attempts, tries,
                    rounds, fetchResult, nextNum, hostname, queueResult, peerMap,
                    hostPeers, hostMap, gcLock, gcPc, gcPeer, addPc,
                    deletedBusyHost>>

\* ------------------------------------------------------------ specification
Next ==
    \/ NewFilePeerTask
    \/ Start
    \/ PullSingleInit
    \/ PullSingleDownload
    \/ PullSingleFallback
    \/ WaitFirstPeerPacket
    \/ PullLoopTop
    \/ PreparePieceTasks
    \/ GetPieceTasks
    \/ WaitAvailablePeerPacket
    \/ DispatchPieceRequest
    \/ WaitFailedPiece
    \/ PullDeferred
    \/ PullExit
    \/ DownloadSourcePiece
    \/ SetContentLength
    \/ DownloadSourceError
    \/ BackSourceFailed
    \/ BackSourceOk
    \/ \E t \in Threads : ReportSkipped(t)
    \/ \E t \in Threads : ReportProgress(t)
    \/ \E t \in Threads : FinishOnce(t)
    \/ \E t \in Threads : FinishSend(t)
    \/ \E t \in Threads : FinishClose(t)
    \/ \E t \in Threads : CleanOnce(t)
    \/ \E t \in Threads : CleanSend(t)
    \/ \E t \in Threads : CleanClose(t)
    \/ \E w \in Workers : WorkerReceive(w)
    \/ \E w \in Workers : WorkerExit(w)
    \/ \E w \in Workers : WorkerLimitFail(w)
    \/ \E w \in Workers : WorkerWork(w)
    \/ CoordStop
    \/ RecvEOF
    \/ RecvError
    \/ RecvNeedBackSource
    \/ RecvDfError
    \/ RecvCodePacket
    \/ CoordCancel
    \/ RecvEmptyPacket
    \/ RecvStealPacket
    \/ RecvPeerPacket
    \/ DoneCallback
    \/ InitiatorCancel

Spec == Init /\ [][Next]_vars

\* ---------------------------------------------------------------- fairness
\* the steps of the goroutine started by Start
MainStep ==
    \/ NewFilePeerTask
    \/ Start
    \/ PullSingleInit
    \/ PullSingleDownload
    \/ PullSingleFallback
    \/ WaitFirstPeerPacket
    \/ PullLoopTop
    \/ PreparePieceTasks
    \/ GetPieceTasks
    \/ WaitAvailablePeerPacket
    \/ DispatchPieceRequest
    \/ WaitFailedPiece
    \/ PullDeferred
    \/ PullExit
    \/ DownloadSourcePiece
    \/ SetContentLength
    \/ DownloadSourceError
    \/ BackSourceFailed
    \/ BackSourceOk

\* the steps of a goroutine inside ReportPieceResult, finish and
\* cleanUnfinished
ReportStep(t) ==
    \/ ReportSkipped(t)
    \/ ReportProgress(t)
    \/ FinishOnce(t)
    \/ FinishSend(t)
    \/ FinishClose(t)
    \/ CleanOnce(t)
    \/ CleanSend(t)
    \/ CleanClose(t)

\* the steps of piece worker w
WorkerStep(w) ==
    \/ WorkerReceive(w)
    \/ WorkerExit(w)
    \/ WorkerWork(w)
    \/ WorkerLimitFail(w)

\* the pull loop leaves its loop at the select at the top of the loop
PullLoopStop == PullLoopTop /\ pc'[Main] = "deferred"

\* The Go scheduler runs every goroutine that can take a step: the goroutine
\* started by Start, the piece workers, and the coordinator, whose pending
\* Recv returns, when it leaves its loop.  A select chooses at random among
\* its ready cases: a case that is ready every time the loop comes back to
\* the select is chosen in the end.
Fairness ==
    /\ WF_vars(MainStep \/ ReportStep(Main))
    /\ SF_vars(PullLoopStop)
    /\ \A w \in Workers : /\ WF_vars(WorkerStep(w) \/ ReportStep(w))
                          /\ SF_vars(WorkerExit(w))
    /\ WF_vars(CoordStop \/ CoordCancel)

\* the tasks followed to their end: a Normal or a Small registration, auto
\* back-source allowed and a rate limiter set
FairInit ==
    /\ Init
    /\ regResult.err = None /\ regResult.scope \in {"NORMAL", "SMALL"}
    /\ ~disableAutoBackSource
    /\ limiter

FairSpec == FairInit /\ [][Next]_vars /\ Fairness

\* --------------------------------------------------- internal/job/queue.go
\* a call of GetSchedulerQueue with the hostname of the configuration
CallGetSchedulerQueue ==
    /\ queueResult' = [fn |-> "GetSchedulerQueue",
                       queue |-> GetSchedulerQueue(hostname).queue,
                       err |-> GetSchedulerQueue(hostname).err]
    /\ UNCHANGED <<regResult, ret, stream, taskID, singlePiece,
                    disableAutoBackSource, limiter, ctxDone, needBackSource,
                    done, once, peerTaskDone, progressStopCh, failedCode,
                    failedReason, readyPieces, requestedPieces, totalPiece,
                    contentLength, completedLength, peerPacket, peerPacketReady,
                    failedPieceCh, pieceRequestCh, pc, stack, cur, coordPc,
                    initPc, num, limit, initialized, piecePacket, panicking,
                    crashed, pg, packetsLeft, faultsLeft, bodyRuns, doneCloses,
                    terminalEvents, failCalls, doneCalls, successSent, endSent,
                    downloadSourceCalls, firstFail, exitPacket, cancelFirst,
                    wokenByClose, built, lastSent, schedulerSaw, coordStarts,
                    pullStarts, takenFailed, dsResult, pieceParallelCount,
                    curPeerPacket, lastGood, lastRecv, packetChanged,
                    firstParallel, workersStarted, backSourceFrom, wokenByPacket,
                    limitRefused, fetchPc, attempts, tries, rounds, fetchResult,
                    nextNum, hostname, peerMap, hostPeers, hostMap, gcLock, gcPc,
                    gcPeer, addPc, deletedBusyHost>>

\* a call of GetCDNQueue with the hostname of the configuration
CallGetCDNQueue ==
    /\ queueResult' = [fn |-> "GetCDNQueue",
                       queue |-> GetCDNQueue(hostname).queue,
                       err |-> GetCDNQueue(hostname).err]
    /\ UNCHANGED <<regResult, ret, stream, taskID, singlePiece,
                    disableAutoBackSource, limiter, ctxDone, needBackSource,
                    done, once, peerTaskDone, progressStopCh, failedCode,
                    failedReason, readyPieces, requestedPieces, totalPiece,
                    contentLength, completedLength, peerPacket, peerPacketReady,
                    failedPieceCh, pieceRequestCh, pc, stack, cur, coordPc,
                    initPc, num, limit, initialized, piecePacket, panicking,
                    crashed, pg, packetsLeft, faultsLeft, bodyRuns, doneCloses,
                    terminalEvents, failCalls, doneCalls, successSent, endSent,
                    downloadSourceCalls, firstFail, exitPacket, cancelFirst,
                    wokenByClose, built, lastSent, schedulerSaw, coordStarts,
                    pullStarts, takenFailed, dsResult, pieceParallelCount,
                    curPeerPacket, lastGood, lastRecv, packetChanged,
                    firstParallel, workersStarted, backSourceFrom, wokenByPacket,
                    limitRefused, fetchPc, attempts, tries, rounds, fetchResult,
                    nextNum, hostname, peerMap, hostPeers, hostMap, gcLock, gcPc,
                    gcPeer, addPc, deletedBusyHost>>

\* the queue functions are called for a hostname of Hostnames while no peer
\* task runs
QueueInit ==
    /\ TaskInit
    /\ regResult = RegNormal /\ ~disableAutoBackSource /\ ~limiter
    /\ hostname \in Hostnames
    /\ queueResult = NoQueueResult

QueueNext == CallGetSchedulerQueue \/ CallGetCDNQueue

QueueSpec == QueueInit /\ [][QueueNext]_vars

\* ------------------------------------------ peerTask.preparePieceTasksByPeer
\* One fetch of piece metadata from the main peer, call by call.  retry.Run
\* calls its function until it returns no error or asks to stop, at most
\* MaxAttempts times; the function of getPieceTasks calls
\* dfclient.GetPieceTasks once.  On an error of the call it stops the retry,
\* with errPeerPacketChanged when the stored packet names another main peer.
\* On a packet without pieces it sends ClientWaitPieceReady, stops in the same
\* way when the main peer changed, and otherwise returns ErrEmptyValue for the
\* next attempt.  preparePieceTasksByPeer returns the pieces,
\* errPeerPacketChanged or a cancelled call at once; every other error it
\* reports with FinishedCount -1, and for CdnTaskNotFound, while the stored
\* packet is still the loaded one, it calls getPieceTasks again (goto retry).
FetchCall ==
    /\ ~crashed /\ fetchPc = "call"
    /\ attempts' = attempts + 1
    /\ \E ans \in PeerAnswers :
         \/ /\ ans = "pieces"
            /\ fetchResult' = "pieces" /\ fetchPc' = "returned"
            /\ tries' = tries + 1
            /\ UNCHANGED <<rounds, lastSent, schedulerSaw>>
         \/ /\ ans = "empty"
            /\ tries' = tries + 1
            /\ IF PeerPacketChanged
               THEN /\ StreamSend("waitPieceReady", Cardinality(readyPieces),
                                  Cardinality(readyPieces))
                    /\ fetchResult' = "errPeerPacketChanged"
                    /\ fetchPc' = "returned"
               ELSE IF tries + 1 < MaxAttempts
                    THEN /\ StreamSend("waitPieceReady", Cardinality(readyPieces),
                                       Cardinality(readyPieces))
                         /\ UNCHANGED <<fetchResult, fetchPc>>
                    ELSE /\ StreamSend("getPieceFail", -1, Cardinality(readyPieces))
                         /\ fetchResult' = "ErrEmptyValue"
                         /\ fetchPc' = "returned"
            /\ UNCHANGED rounds
         \/ /\ ans \in {"CdnTaskNotFound", "ClientPieceRequestFail", "Canceled"}
            /\ IF PeerPacketChanged
               THEN /\ fetchResult' = "errPeerPacketChanged"
                    /\ fetchPc' = "returned"
                    /\ tries' = tries + 1
                    /\ UNCHANGED <<rounds, lastSent, schedulerSaw>>
               ELSE IF ans = "Canceled"
                    THEN /\ fetchResult' = ans /\ fetchPc' = "returned"
                         /\ tries' = tries + 1
                         /\ UNCHANGED <<rounds, lastSent, schedulerSaw>>
                    ELSE /\ StreamSend("getPieceFail", -1, Cardinality(readyPieces))
                         /\ IF ans = "CdnTaskNotFound" /\ curPeerPacket = peerPacket
                            THEN /\ rounds < MaxRounds
                                 /\ rounds' = rounds + 1
                                 /\ tries' = 0
                                 /\ UNCHANGED <<fetchResult, fetchPc>>
                            ELSE /\ fetchResult' = ans /\ fetchPc' = "returned"
                                 /\ tries' = tries + 1
                                 /\ UNCHANGED rounds
    /\ UNCHANGED <<regResult, ret, stream, taskID, singlePiece,
                    disableAutoBackSource, limiter, ctxDone, needBackSource,
                    done, once, peerTaskDone, progressStopCh, failedCode,
                    failedReason, readyPieces, requestedPieces, totalPiece,
                    contentLength, completedLength, peerPacket, peerPacketReady,
                    failedPieceCh, pieceRequestCh, pc, stack, cur, coordPc,
                    initPc, num, limit, initialized, piecePacket, panicking,
                    crashed, pg, packetsLeft, faultsLeft, bodyRuns, doneCloses,
                    terminalEvents, failCalls, doneCalls, successSent, endSent,
                    downloadSourceCalls, firstFail, exitPacket, cancelFirst,
                    wokenByClose, built, coordStarts, pullStarts, takenFailed,
                    dsResult, pieceParallelCount, curPeerPacket, lastGood,
                    lastRecv, packetChanged, firstParallel, workersStarted,
                    backSourceFrom, wokenByPacket, limitRefused, nextNum,
                    hostname, queueResult, peerMap, hostPeers, hostMap, gcLock,
                    gcPc, gcPeer, addPc, deletedBusyHost>>

\* a Normal task whose pull loop is at label l after the first peer packet:
\* the fields that neither the piece bookkeeping nor the fetch of piece
\* metadata writes
PullingTask(l) ==
    /\ regResult = RegNormal
    /\ disableAutoBackSource \in BOOLEAN
    /\ limiter \in BOOLEAN
    /\ ret = [task |-> TRUE, tiny |-> NoTinyData, err |-> None]
    /\ stream = "real" /\ taskID = SchedTaskID
    /\ singlePiece = FALSE /\ needBackSource = FALSE
    /\ ctxDone = FALSE /\ done = FALSE /\ once = "fresh"
    /\ peerTaskDone = FALSE /\ progressStopCh = FALSE
    /\ failedCode = "UnknownError" /\ failedReason = failedReasonNotSet
    /\ peerPacket \in {pp \in MainPeerPackets : pp.MainPeer = "P1"}
    /\ lastGood = peerPacket
    /\ pieceParallelCount = peerPacket.ParallelCount
    /\ firstParallel = peerPacket.ParallelCount
    /\ peerPacketReady = [buf |-> 0, closed |-> FALSE]
    /\ failedPieceCh = [buf |-> <<>>, closed |-> FALSE]
    /\ pieceRequestCh = <<>>
    /\ pc = [t \in Threads |-> IF t = Main THEN l ELSE "idle"]
    /\ stack = [t \in Threads |-> <<>>]
    /\ cur = [t \in Threads |-> 0]
    /\ coordPc = "recv" /\ initPc = "listen"
    /\ limit = DefaultPieceChanSize
    /\ piecePacket = NilPiecePacket /\ panicking = FALSE /\ crashed = FALSE
    /\ pg = NoEvent
    /\ packetsLeft = MaxPackets - 1 /\ faultsLeft = MaxFaults
    /\ bodyRuns = [finish |-> 0, clean |-> 0] /\ doneCloses = 0
    /\ terminalEvents = <<>> /\ failCalls = <<>> /\ doneCalls = 0
    /\ successSent = [n \in Pieces |-> 0] /\ endSent = 0
    /\ downloadSourceCalls = 0 /\ firstFail = NoFail /\ exitPacket = None
    /\ cancelFirst = FALSE /\ wokenByClose = FALSE
    /\ built = NotBuilt
    /\ lastSent = NoSend /\ schedulerSaw = FALSE
    /\ coordStarts = 1 /\ pullStarts = 1
    /\ takenFailed = -1 /\ dsResult = None
    /\ lastRecv = "Success" /\ packetChanged = FALSE
    /\ workersStarted = -1 /\ backSourceFrom = None
    /\ wokenByPacket = FALSE /\ limitRefused = FALSE
    /\ hostname = <<>> /\ queueResult = NoQueueResult
    /\ NewManager

\* the pull loop of a Normal task has loaded the first peer packet and calls
\* preparePieceTasksByPeer for its main peer; receivePeerPacket goes on
\* storing the packets of the scheduler
FetchInit ==
    /\ PullingTask("getPiece")
    /\ curPeerPacket = peerPacket
    /\ readyPieces = {} /\ requestedPieces = {}
    /\ totalPiece = -1 /\ contentLength = -1 /\ completedLength = 0
    /\ num = 0 /\ initialized = FALSE
    /\ fetchPc = "call" /\ attempts = 0 /\ tries = 0 /\ rounds = 0
    /\ fetchResult = None /\ nextNum = NotCalled

FetchNext == FetchCall \/ RecvPeerPacket

FetchSpec == FetchInit /\ [][FetchNext]_vars

\* ------------------------------------------------ peerTask.getNextPieceNum
\* getNextPieceNum is called with num
CallGetNextPieceNum ==
    /\ nextNum = NotCalled
    /\ nextNum' = getNextPieceNum(num)
    /\ UNCHANGED <<regResult, ret, stream, taskID, singlePiece,
                    disableAutoBackSource, limiter, ctxDone, needBackSource,
                    done, once, peerTaskDone, progressStopCh, failedCode,
                    failedReason, readyPieces, requestedPieces, totalPiece,
                    contentLength, completedLength, peerPacket, peerPacketReady,
                    failedPieceCh, pieceRequestCh, pc, stack, cur, coordPc,
                    initPc, num, limit, initialized, piecePacket, panicking,
                    crashed, pg, packetsLeft, faultsLeft, bodyRuns, doneCloses,
                    terminalEvents, failCalls, doneCalls, successSent, endSent,
                    downloadSourceCalls, firstFail, exitPacket, cancelFirst,
                    wokenByClose, built, lastSent, schedulerSaw, coordStarts,
                    pullStarts, takenFailed, dsResult, pieceParallelCount,
                    curPeerPacket, lastGood, lastRecv, packetChanged,
                    firstParallel, workersStarted, backSourceFrom, wokenByPacket,
                    limitRefused, fetchPc, attempts, tries, rounds, fetchResult,
                    hostname, queueResult, peerMap, hostPeers, hostMap, gcLock,
                    gcPc, gcPeer, addPc, deletedBusyHost>>

\* the pull loop has dispatched pieces and calls getNextPieceNum: the
\* requested and the ready bits, the counters and the current piece number
\* are drawn; the ready pieces are requested ones and completedLength is the
\* sum of their sizes; the total piece count a piece packet announced is
\* unknown or a count, the content length init stored is unknown, zero or the
\* sum of the piece sizes
NumInit ==
    /\ PullingTask("dispatch")
    /\ curPeerPacket = NilPeerPacket
    /\ requestedPieces \in SUBSET Pieces
    /\ readyPieces \in SUBSET requestedPieces
    /\ completedLength = SumRange(readyPieces)
    /\ totalPiece \in {-1} \cup (0 .. NumPieces)
    /\ contentLength \in {-1, 0, SumRange(Pieces)}
    /\ num \in 0 .. NumPieces
    /\ initialized = TRUE
    /\ fetchPc = "idle" /\ attempts = 0 /\ tries = 0 /\ rounds = 0
    /\ fetchResult = None /\ nextNum = NotCalled

NumSpec == NumInit /\ [][CallGetNextPieceNum]_vars

\* ------------------------------ pieceRequestCh and failedPieceCh in the loop
\* The pull loop and its workers with both channels of capacity
\* DefaultPieceChanSize, a task of MaxChanPieces pieces, peers that answer
\* every request with at most Limit pieces from StartNum on, and downloads
\* that fail as often as the environment likes.  The context is not
\* cancelled before the task completes.
ChanPieces == 0 .. (MaxChanPieces - 1)
ChanRunning == ~crashed /\ ~done /\ ~ctxDone
\* the workers init has started
StartedWorkers == {w \in Workers : pc[w] # "idle"}

\* a taken failed piece leaves the limit at the buffer size
ChanLoopTopKeepsLimit ==
    /\ ChanRunning /\ pc[Main] = "loopTop"
    /\ IF failedPieceCh.buf # <<>>
       THEN /\ num' = Head(failedPieceCh.buf)
            /\ takenFailed' = Head(failedPieceCh.buf)
            /\ limit' = DefaultPieceChanSize
            /\ failedPieceCh' = [failedPieceCh EXCEPT !.buf = Tail(@)]
       ELSE UNCHANGED <<num, takenFailed, limit, failedPieceCh>>
    /\ Goto(Main, "getPiece")
    /\ UNCHANGED <<regResult, ret, stream, taskID, singlePiece,
                    disableAutoBackSource, limiter, ctxDone, needBackSource,
                    done, once, peerTaskDone, progressStopCh, failedCode,
                    failedReason, readyPieces, requestedPieces, totalPiece,
                    contentLength, completedLength, peerPacket, peerPacketReady,
                    pieceRequestCh, stack, cur, coordPc, initPc, initialized,
                    piecePacket, panicking, crashed, pg, packetsLeft, faultsLeft,
                    bodyRuns, doneCloses, terminalEvents, failCalls, doneCalls,
                    successSent, endSent, downloadSourceCalls, firstFail,
                    exitPacket, cancelFirst, wokenByClose, built, lastSent,
                    schedulerSaw, coordStarts, pullStarts, dsResult,
                    pieceParallelCount, curPeerPacket, lastGood, lastRecv,
                    packetChanged, firstParallel, workersStarted, backSourceFrom,
                    wokenByPacket, limitRefused, fetchPc, attempts, tries,
                    rounds, fetchResult, nextNum, hostname, queueResult, peerMap,
                    hostPeers, hostMap, gcLock, gcPc, gcPeer, addPc,
                    deletedBusyHost>>

\* the select at the top of the loop: a failed piece is taken when there is
\* one (num = failed, limit = 1), otherwise the default branch
ChanLoopTop ==
    /\ ChanRunning /\ pc[Main] = "loopTop"
    /\ IF failedPieceCh.buf # <<>>
       THEN /\ num' = Head(failedPieceCh.buf)
            /\ takenFailed' = Head(failedPieceCh.buf)
            /\ limit' = 1
            /\ failedPieceCh' = [failedPieceCh EXCEPT !.buf = Tail(@)]
       ELSE UNCHANGED <<num, takenFailed, limit, failedPieceCh>>
    /\ Goto(Main, "getPiece")
    /\ UNCHANGED <<regResult, ret, stream, taskID, singlePiece,
                    disableAutoBackSource, limiter, ctxDone, needBackSource,
                    done, once, peerTaskDone, progressStopCh, failedCode,
                    failedReason, readyPieces, requestedPieces, totalPiece,
                    contentLength, completedLength, peerPacket, peerPacketReady,
                    pieceRequestCh, stack, cur, coordPc, initPc, initialized,
                    piecePacket, panicking, crashed, pg, packetsLeft, faultsLeft,
                    bodyRuns, doneCloses, terminalEvents, failCalls, doneCalls,
                    successSent, endSent, downloadSourceCalls, firstFail,
                    exitPacket, cancelFirst, wokenByClose, built, lastSent,
                    schedulerSaw, coordStarts, pullStarts, dsResult,
                    pieceParallelCount, curPeerPacket, lastGood, lastRecv,
                    packetChanged, firstParallel, workersStarted, backSourceFrom,
                    wokenByPacket, limitRefused, fetchPc, attempts, tries,
                    rounds, fetchResult, nextNum, hostname, queueResult, peerMap,
                    hostPeers, hostMap, gcLock, gcPc, gcPeer, addPc,
                    deletedBusyHost>>

\* preparePieceTasks answered by the peer with the first k pieces of
\* [num, num + limit); on the first pass init stores the content length and
\* starts ParallelCount workers; then totalPiece is updated.  A request no
\* piece answers ends in the error path, which dispatches nothing.
ChanGetPieces ==
    /\ ChanRunning /\ pc[Main] = "getPiece"
    /\ LET range == {p \in ChanPieces : p >= num /\ p < num + limit}
       IN IF range = {}
          THEN /\ Goto(Main, "exited")
               /\ UNCHANGED <<piecePacket, initialized, contentLength, totalPiece,
                              workersStarted>>
          ELSE /\ \E k \in 1 .. Cardinality(range) :
                     piecePacket' = [nil |-> FALSE,
                                     PieceInfos |-> SubSeq(Asc(range), 1, k)]
               /\ initialized' = TRUE
               /\ contentLength' = IF initialized THEN contentLength
                                   ELSE SumRange(ChanPieces)
               /\ workersStarted' = IF initialized THEN workersStarted
                                    ELSE peerPacket.ParallelCount
               /\ totalPiece' = IF MaxChanPieces > totalPiece THEN MaxChanPieces
                                ELSE totalPiece
               /\ pc' = [t \in Threads |->
                           IF t = Main THEN "dispatch"
                           ELSE IF ~initialized /\ t <= peerPacket.ParallelCount
                                THEN "w_wait" ELSE pc[t]]
    /\ UNCHANGED <<regResult, ret, stream, taskID, singlePiece,
                    disableAutoBackSource, limiter, ctxDone, needBackSource,
                    done, once, peerTaskDone, progressStopCh, failedCode,
                    failedReason, readyPieces, requestedPieces, completedLength,
                    peerPacket, peerPacketReady, failedPieceCh, pieceRequestCh,
                    stack, cur, coordPc, initPc, num, limit, panicking, crashed,
                    pg, packetsLeft, faultsLeft, bodyRuns, doneCloses,
                    terminalEvents, failCalls, doneCalls, successSent, endSent,
                    downloadSourceCalls, firstFail, exitPacket, cancelFirst,
                    wokenByClose, built, lastSent, schedulerSaw, coordStarts,
                    pullStarts, takenFailed, dsResult, pieceParallelCount,
                    curPeerPacket, lastGood, lastRecv, packetChanged,
                    firstParallel, backSourceFrom, wokenByPacket, limitRefused,
                    fetchPc, attempts, tries, rounds, fetchResult, nextNum,
                    hostname, queueResult, peerMap, hostPeers, hostMap, gcLock,
                    gcPc, gcPeer, addPc, deletedBusyHost>>

\* dispatchPieceRequest for the next piece of the packet: set the requested
\* bit and send on pieceRequestCh, which blocks while the channel is full;
\* after the last piece getNextPieceNum decides between the next batch and
\* waitFailedPiece
ChanDispatch ==
    /\ ChanRunning /\ pc[Main] = "dispatch"
    /\ piecePacket.PieceInfos # <<>>
    /\ Len(pieceRequestCh) < DefaultPieceChanSize
    /\ requestedPieces' = requestedPieces \cup {Head(piecePacket.PieceInfos)}
    /\ pieceRequestCh' = Append(pieceRequestCh, Head(piecePacket.PieceInfos))
    /\ piecePacket' = [piecePacket EXCEPT !.PieceInfos = Tail(@)]
    /\ IF Tail(piecePacket.PieceInfos) # <<>>
       THEN UNCHANGED <<pc, num, limit>>
       ELSE LET n == NextPieceNum(requestedPieces', num)
            IN /\ num' = n
               /\ IF n # -1
                  THEN limit' = DefaultPieceChanSize /\ Goto(Main, "loopTop")
                  ELSE /\ limit' = 1
                       /\ IF isCompleted THEN Goto(Main, "exited")
                          ELSE Goto(Main, "waitFailed")
    /\ UNCHANGED <<regResult, ret, stream, taskID, singlePiece,
                    disableAutoBackSource, limiter, ctxDone, needBackSource,
                    done, once, peerTaskDone, progressStopCh, failedCode,
                    failedReason, readyPieces, totalPiece, contentLength,
                    completedLength, peerPacket, peerPacketReady, failedPieceCh,
                    stack, cur, coordPc, initPc, initialized, panicking, crashed,
                    pg, packetsLeft, faultsLeft, bodyRuns, doneCloses,
                    terminalEvents, failCalls, doneCalls, successSent, endSent,
                    downloadSourceCalls, firstFail, exitPacket, cancelFirst,
                    wokenByClose, built, lastSent, schedulerSaw, coordStarts,
                    pullStarts, takenFailed, dsResult, pieceParallelCount,
                    curPeerPacket, lastGood, lastRecv, packetChanged,
                    firstParallel, workersStarted, backSourceFrom, wokenByPacket,
                    limitRefused, fetchPc, attempts, tries, rounds, fetchResult,
                    nextNum, hostname, queueResult, peerMap, hostPeers, hostMap,
                    gcLock, gcPc, gcPeer, addPc, deletedBusyHost>>

\* waitFailedPiece: receive a failed piece and go round the loop with -1
ChanWaitFailed ==
    /\ ChanRunning /\ pc[Main] = "waitFailed"
    /\ failedPieceCh.buf # <<>>
    /\ failedPieceCh' = [failedPieceCh EXCEPT !.buf = Tail(@)]
    /\ takenFailed' = Head(failedPieceCh.buf)
    /\ num' = -1
    /\ Goto(Main, "loopTop")
    /\ UNCHANGED <<regResult, ret, stream, taskID, singlePiece,
                    disableAutoBackSource, limiter, ctxDone, needBackSource,
                    done, once, peerTaskDone, progressStopCh, failedCode,
                    failedReason, readyPieces, requestedPieces, totalPiece,
                    contentLength, completedLength, peerPacket, peerPacketReady,
                    pieceRequestCh, stack, cur, coordPc, initPc, limit,
                    initialized, piecePacket, panicking, crashed, pg,
                    packetsLeft, faultsLeft, bodyRuns, doneCloses,
                    terminalEvents, failCalls, doneCalls, successSent, endSent,
                    downloadSourceCalls, firstFail, exitPacket, cancelFirst,
                    wokenByClose, built, lastSent, schedulerSaw, coordStarts,
                    pullStarts, dsResult, pieceParallelCount, curPeerPacket,
                    lastGood, lastRecv, packetChanged, firstParallel,
                    workersStarted, backSourceFrom, wokenByPacket, limitRefused,
                    fetchPc, attempts, tries, rounds, fetchResult, nextNum,
                    hostname, queueResult, peerMap, hostPeers, hostMap, gcLock,
                    gcPc, gcPeer, addPc, deletedBusyHost>>

\* downloadPieceWorker receives a request; a piece that is ready is skipped
ChanWorkerTake(w) ==
    /\ ChanRunning /\ pc[w] = "w_wait"
    /\ pieceRequestCh # <<>>
    /\ pieceRequestCh' = Tail(pieceRequestCh)
    /\ cur' = [cur EXCEPT ![w] = Head(pieceRequestCh)]
    /\ IF Head(pieceRequestCh) \in readyPieces
       THEN UNCHANGED pc
       ELSE Goto(w, "w_work")
    /\ UNCHANGED <<regResult, ret, stream, taskID, singlePiece,
                    disableAutoBackSource, limiter, ctxDone, needBackSource,
                    done, once, peerTaskDone, progressStopCh, failedCode,
                    failedReason, readyPieces, requestedPieces, totalPiece,
                    contentLength, completedLength, peerPacket, peerPacketReady,
                    failedPieceCh, stack, coordPc, initPc, num, limit,
                    initialized, piecePacket, panicking, crashed, pg,
                    packetsLeft, faultsLeft, bodyRuns, doneCloses,
                    terminalEvents, failCalls, doneCalls, successSent, endSent,
                    downloadSourceCalls, firstFail, exitPacket, cancelFirst,
                    wokenByClose, built, lastSent, schedulerSaw, coordStarts,
                    pullStarts, takenFailed, dsResult, pieceParallelCount,
                    curPeerPacket, lastGood, lastRecv, packetChanged,
                    firstParallel, workersStarted, backSourceFrom, wokenByPacket,
                    limitRefused, fetchPc, attempts, tries, rounds, fetchResult,
                    nextNum, hostname, queueResult, peerMap, hostPeers, hostMap,
                    gcLock, gcPc, gcPeer, addPc, deletedBusyHost>>

\* DownloadPiece and ReportPieceResult: a success marks the piece ready and
\* adds its size, and the success that completes the task runs finish (done
\* closed, context cancelled); a failure sends the result to the scheduler
\* and goes on to the send on failedPieceCh
ChanWorkerDownload(w) ==
    /\ ChanRunning /\ pc[w] = "w_work"
    /\ \/ /\ IF cur[w] \in readyPieces
             THEN UNCHANGED <<readyPieces, completedLength, done, ctxDone>>
             ELSE /\ readyPieces' = readyPieces \cup {cur[w]}
                  /\ completedLength' = completedLength + RangeSize(cur[w])
                  /\ done' = (completedLength + RangeSize(cur[w]) = contentLength)
                  /\ ctxDone' = (completedLength + RangeSize(cur[w]) = contentLength)
          /\ Goto(w, "w_wait")
       \/ /\ Goto(w, "rp_push")
          /\ UNCHANGED <<readyPieces, completedLength, done, ctxDone>>
    /\ UNCHANGED <<regResult, ret, stream, taskID, singlePiece,
                    disableAutoBackSource, limiter, needBackSource, once,
                    peerTaskDone, progressStopCh, failedCode, failedReason,
                    requestedPieces, totalPiece, contentLength, peerPacket,
                    peerPacketReady, failedPieceCh, pieceRequestCh, stack, cur,
                    coordPc, initPc, num, limit, initialized, piecePacket,
                    panicking, crashed, pg, packetsLeft, faultsLeft, bodyRuns,
                    doneCloses, terminalEvents, failCalls, doneCalls,
                    successSent, endSent, downloadSourceCalls, firstFail,
                    exitPacket, cancelFirst, wokenByClose, built, lastSent,
                    schedulerSaw, coordStarts, pullStarts, takenFailed, dsResult,
                    pieceParallelCount, curPeerPacket, lastGood, lastRecv,
                    packetChanged, firstParallel, workersStarted, backSourceFrom,
                    wokenByPacket, limitRefused, fetchPc, attempts, tries,
                    rounds, fetchResult, nextNum, hostname, queueResult, peerMap,
                    hostPeers, hostMap, gcLock, gcPc, gcPeer, addPc,
                    deletedBusyHost>>

\* pt.failedPieceCh <- PieceNum, which blocks while the channel is full
ChanWorkerPush(w) ==
    /\ ChanRunning /\ pc[w] = "rp_push"
    /\ Len(failedPieceCh.buf) < DefaultPieceChanSize
    /\ failedPieceCh' = [failedPieceCh EXCEPT !.buf = Append(@, cur[w])]
    /\ Goto(w, "w_wait")
    /\ UNCHANGED <<regResult, ret, stream, taskID, singlePiece,
                    disableAutoBackSource, limiter, ctxDone, needBackSource,
                    done, once, peerTaskDone, progressStopCh, failedCode,
                    failedReason, readyPieces, requestedPieces, totalPiece,
                    contentLength, completedLength, peerPacket, peerPacketReady,
                    pieceRequestCh, stack, cur, coordPc, initPc, num, limit,
                    initialized, piecePacket, panicking, crashed, pg,
                    packetsLeft, faultsLeft, bodyRuns, doneCloses,
                    terminalEvents, failCalls, doneCalls, successSent, endSent,
                    downloadSourceCalls, firstFail, exitPacket, cancelFirst,
                    wokenByClose, built, lastSent, schedulerSaw, coordStarts,
                    pullStarts, takenFailed, dsResult, pieceParallelCount,
                    curPeerPacket, lastGood, lastRecv, packetChanged,
                    firstParallel, workersStarted, backSourceFrom, wokenByPacket,
                    limitRefused, fetchPc, attempts, tries, rounds, fetchResult,
                    nextNum, hostname, queueResult, peerMap, hostPeers, hostMap,
                    gcLock, gcPc, gcPeer, addPc, deletedBusyHost>>

\* the pull loop of a Normal task enters its loop after the first peer packet
ChanInit ==
    /\ PullingTask("loopTop")
    /\ ~limiter /\ ~disableAutoBackSource /\ peerPacket.MainPeer = "P1"
    /\ curPeerPacket = peerPacket
    /\ readyPieces = {} /\ requestedPieces = {}
    /\ totalPiece = -1 /\ contentLength = -1 /\ completedLength = 0
    /\ num = 0 /\ initialized = FALSE
    /\ fetchPc = "idle" /\ attempts = 0 /\ tries = 0 /\ rounds = 0
    /\ fetchResult = None /\ nextNum = NotCalled

ChanNext ==
    \/ ChanLoopTop
    \/ ChanGetPieces
    \/ ChanDispatch
    \/ ChanWaitFailed
    \/ \E w \in Workers : ChanWorkerTake(w)
    \/ \E w \in Workers : ChanWorkerDownload(w)
    \/ \E w \in Workers : ChanWorkerPush(w)

ChanSpec == ChanInit /\ [][ChanNext]_vars

\* ------------------------------------------------ scheduler peer manager
\* manager.Add up to peer.Host.AddPeer: the lock is taken and the peer is
\* added to its host
ManagerAddHost(p) ==
    /\ addPc[p] = "idle" /\ gcLock = None
    /\ gcLock' = p
    /\ hostPeers' = [hostPeers EXCEPT ![PeerHost(p)] = @ \cup {p}]
    /\ addPc' = [addPc EXCEPT ![p] = "store"]
    /\ UNCHANGED <<regResult, ret, stream, taskID, singlePiece,
                    disableAutoBackSource, limiter, ctxDone, needBackSource,
                    done, once, peerTaskDone, progressStopCh, failedCode,
                    failedReason, readyPieces, requestedPieces, totalPiece,
                    contentLength, completedLength, peerPacket, peerPacketReady,
                    failedPieceCh, pieceRequestCh, pc, stack, cur, coordPc,
                    initPc, num, limit, initialized, piecePacket, panicking,
                    crashed, pg, packetsLeft, faultsLeft, bodyRuns, doneCloses,
                    terminalEvents, failCalls, doneCalls, successSent, endSent,
                    downloadSourceCalls, firstFail, exitPacket, cancelFirst,
                    wokenByClose, built, lastSent, schedulerSaw, coordStarts,
                    pullStarts, takenFailed, dsResult, pieceParallelCount,
                    curPeerPacket, lastGood, lastRecv, packetChanged,
                    firstParallel, workersStarted, backSourceFrom, wokenByPacket,
                    limitRefused, fetchPc, attempts, tries, rounds, fetchResult,
                    nextNum, hostname, queueResult, peerMap, hostMap, gcPc,
                    gcPeer, deletedBusyHost>>

\* manager.Add from m.peerMap.Store on: the peer is stored and the deferred
\* Unlock runs
ManagerAddStore(p) ==
    /\ addPc[p] = "store"
    /\ peerMap' = peerMap \cup {p}
    /\ gcLock' = None
    /\ addPc' = [addPc EXCEPT ![p] = "added"]
    /\ UNCHANGED <<regResult, ret, stream, taskID, singlePiece,
                    disableAutoBackSource, limiter, ctxDone, needBackSource,
                    done, once, peerTaskDone, progressStopCh, failedCode,
                    failedReason, readyPieces, requestedPieces, totalPiece,
                    contentLength, completedLength, peerPacket, peerPacketReady,
                    failedPieceCh, pieceRequestCh, pc, stack, cur, coordPc,
                    initPc, num, limit, initialized, piecePacket, panicking,
                    crashed, pg, packetsLeft, faultsLeft, bodyRuns, doneCloses,
                    terminalEvents, failCalls, doneCalls, successSent, endSent,
                    downloadSourceCalls, firstFail, exitPacket, cancelFirst,
                    wokenByClose, built, lastSent, schedulerSaw, coordStarts,
                    pullStarts, takenFailed, dsResult, pieceParallelCount,
                    curPeerPacket, lastGood, lastRecv, packetChanged,
                    firstParallel, workersStarted, backSourceFrom, wokenByPacket,
                    limitRefused, fetchPc, attempts, tries, rounds, fetchResult,
                    nextNum, hostname, queueResult, hostPeers, hostMap, gcPc,
                    gcPeer, deletedBusyHost>>

\* manager.Delete under m.lock: a stored peer leaves its host and the map
ManagerDelete(p) ==
    /\ IF p \in peerMap
       THEN /\ hostPeers' = [hostPeers EXCEPT ![PeerHost(p)] = @ \ {p}]
            /\ peerMap' = peerMap \ {p}
       ELSE UNCHANGED <<hostPeers, peerMap>>

\* cleanupPeers: the Range over m.peerMap visits a stored peer
CleanupVisit ==
    /\ gcPc = "tick"
    /\ \E p \in peerMap : gcPeer' = p
    /\ gcPc' = "visit"
    /\ UNCHANGED <<regResult, ret, stream, taskID, singlePiece,
                    disableAutoBackSource, limiter, ctxDone, needBackSource,
                    done, once, peerTaskDone, progressStopCh, failedCode,
                    failedReason, readyPieces, requestedPieces, totalPiece,
                    contentLength, completedLength, peerPacket, peerPacketReady,
                    failedPieceCh, pieceRequestCh, pc, stack, cur, coordPc,
                    initPc, num, limit, initialized, piecePacket, panicking,
                    crashed, pg, packetsLeft, faultsLeft, bodyRuns, doneCloses,
                    terminalEvents, failCalls, doneCalls, successSent, endSent,
                    downloadSourceCalls, firstFail, exitPacket, cancelFirst,
                    wokenByClose, built, lastSent, schedulerSaw, coordStarts,
                    pullStarts, takenFailed, dsResult, pieceParallelCount,
                    curPeerPacket, lastGood, lastRecv, packetChanged,
                    firstParallel, workersStarted, backSourceFrom, wokenByPacket,
                    limitRefused, fetchPc, attempts, tries, rounds, fetchResult,
                    nextNum, hostname, queueResult, peerMap, hostPeers, hostMap,
                    gcLock, addPc, deletedBusyHost>>

\* the visited peer has not left, has not failed and is younger than peerTTL
CleanupKeep ==
    /\ gcPc = "visit"
    /\ gcPc' = "tick" /\ gcPeer' = None
    /\ UNCHANGED <<regResult, ret, stream, taskID, singlePiece,
                    disableAutoBackSource, limiter, ctxDone, needBackSource,
                    done, once, peerTaskDone, progressStopCh, failedCode,
                    failedReason, readyPieces, requestedPieces, totalPiece,
                    contentLength, completedLength, peerPacket, peerPacketReady,
                    failedPieceCh, pieceRequestCh, pc, stack, cur, coordPc,
                    initPc, num, limit, initialized, piecePacket, panicking,
                    crashed, pg, packetsLeft, faultsLeft, bodyRuns, doneCloses,
                    terminalEvents, failCalls, doneCalls, successSent, endSent,
                    downloadSourceCalls, firstFail, exitPacket, cancelFirst,
                    wokenByClose, built, lastSent, schedulerSaw, coordStarts,
                    pullStarts, takenFailed, dsResult, pieceParallelCount,
                    curPeerPacket, lastGood, lastRecv, packetChanged,
                    firstParallel, workersStarted, backSourceFrom, wokenByPacket,
                    limitRefused, fetchPc, attempts, tries, rounds, fetchResult,
                    nextNum, hostname, queueResult, peerMap, hostPeers, hostMap,
                    gcLock, addPc, deletedBusyHost>>

\* the visited peer has left, has failed or is older than peerTTL:
\* m.Delete(key)
CleanupDelete ==
    /\ gcPc = "visit" /\ gcLock = None
    /\ ManagerDelete(gcPeer)
    /\ gcPc' = "check"
    /\ UNCHANGED <<regResult, ret, stream, taskID, singlePiece,
                    disableAutoBackSource, limiter, ctxDone, needBackSource,
                    done, once, peerTaskDone, progressStopCh, failedCode,
                    failedReason, readyPieces, requestedPieces, totalPiece,
                    contentLength, completedLength, peerPacket, peerPacketReady,
                    failedPieceCh, pieceRequestCh, pc, stack, cur, coordPc,
                    initPc, num, limit, initialized, piecePacket, panicking,
                    crashed, pg, packetsLeft, faultsLeft, bodyRuns, doneCloses,
                    terminalEvents, failCalls, doneCalls, successSent, endSent,
                    downloadSourceCalls, firstFail, exitPacket, cancelFirst,
                    wokenByClose, built, lastSent, schedulerSaw, coordStarts,
                    pullStarts, takenFailed, dsResult, pieceParallelCount,
                    curPeerPacket, lastGood, lastRecv, packetChanged,
                    firstParallel, workersStarted, backSourceFrom, wokenByPacket,
                    limitRefused, fetchPc, attempts, tries, rounds, fetchResult,
                    nextNum, hostname, queueResult, hostMap, gcLock, gcPeer,
                    addPc, deletedBusyHost>>

\* if !peer.Host.CDN && peer.Host.GetPeerTaskNum() == 0, read without m.lock
CleanupCheck ==
    /\ gcPc = "check"
    /\ IF ~CDN(PeerHost(gcPeer)) /\ hostPeers[PeerHost(gcPeer)] = {}
       THEN gcPc' = "hostDelete" /\ UNCHANGED gcPeer
       ELSE gcPc' = "tick" /\ gcPeer' = None
    /\ UNCHANGED <<regResult, ret, stream, taskID, singlePiece,
                    disableAutoBackSource, limiter, ctxDone, needBackSource,
                    done, once, peerTaskDone, progressStopCh, failedCode,
                    failedReason, readyPieces, requestedPieces, totalPiece,
                    contentLength, completedLength, peerPacket, peerPacketReady,
                    failedPieceCh, pieceRequestCh, pc, stack, cur, coordPc,
                    initPc, num, limit, initialized, piecePacket, panicking,
                    crashed, pg, packetsLeft, faultsLeft, bodyRuns, doneCloses,
                    terminalEvents, failCalls, doneCalls, successSent, endSent,
                    downloadSourceCalls, firstFail, exitPacket, cancelFirst,
                    wokenByClose, built, lastSent, schedulerSaw, coordStarts,
                    pullStarts, takenFailed, dsResult, pieceParallelCount,
                    curPeerPacket, lastGood, lastRecv, packetChanged,
                    firstParallel, workersStarted, backSourceFrom, wokenByPacket,
                    limitRefused, fetchPc, attempts, tries, rounds, fetchResult,
                    nextNum, hostname, queueResult, peerMap, hostPeers, hostMap,
                    gcLock, addPc, deletedBusyHost>>

\* m.hostManager.Delete(peer.Host.UUID)
CleanupHostDelete ==
    /\ gcPc = "hostDelete"
    /\ hostMap' = hostMap \ {PeerHost(gcPeer)}
    /\ deletedBusyHost' = \/ deletedBusyHost
                          \/ \E p \in peerMap : PeerHost(p) = PeerHost(gcPeer)
    /\ gcPc' = "tick" /\ gcPeer' = None
    /\ UNCHANGED <<regResult, ret, stream, taskID, singlePiece,
                    disableAutoBackSource, limiter, ctxDone, needBackSource,
                    done, once, peerTaskDone, progressStopCh, failedCode,
                    failedReason, readyPieces, requestedPieces, totalPiece,
                    contentLength, completedLength, peerPacket, peerPacketReady,
                    failedPieceCh, pieceRequestCh, pc, stack, cur, coordPc,
                    initPc, num, limit, initialized, piecePacket, panicking,
                    crashed, pg, packetsLeft, faultsLeft, bodyRuns, doneCloses,
                    terminalEvents, failCalls, doneCalls, successSent, endSent,
                    downloadSourceCalls, firstFail, exitPacket, cancelFirst,
                    wokenByClose, built, lastSent, schedulerSaw, coordStarts,
                    pullStarts, takenFailed, dsResult, pieceParallelCount,
                    curPeerPacket, lastGood, lastRecv, packetChanged,
                    firstParallel, workersStarted, backSourceFrom, wokenByPacket,
                    limitRefused, fetchPc, attempts, tries, rounds, fetchResult,
                    nextNum, hostname, queueResult, peerMap, hostPeers, gcLock,
                    addPc>>

\* cleanupTasks: m.peerManager.Delete(peer.PeerID) for a peer of an expired
\* task
CleanupTasksDelete ==
    /\ gcLock = None
    /\ \E p \in peerMap : ManagerDelete(p)
    /\ UNCHANGED <<regResult, ret, stream, taskID, singlePiece,
                    disableAutoBackSource, limiter, ctxDone, needBackSource,
                    done, once, peerTaskDone, progressStopCh, failedCode,
                    failedReason, readyPieces, requestedPieces, totalPiece,
                    contentLength, completedLength, peerPacket, peerPacketReady,
                    failedPieceCh, pieceRequestCh, pc, stack, cur, coordPc,
                    initPc, num, limit, initialized, piecePacket, panicking,
                    crashed, pg, packetsLeft, faultsLeft, bodyRuns, doneCloses,
                    terminalEvents, failCalls, doneCalls, successSent, endSent,
                    downloadSourceCalls, firstFail, exitPacket, cancelFirst,
                    wokenByClose, built, lastSent, schedulerSaw, coordStarts,
                    pullStarts, takenFailed, dsResult, pieceParallelCount,
                    curPeerPacket, lastGood, lastRecv, packetChanged,
                    firstParallel, workersStarted, backSourceFrom, wokenByPacket,
                    limitRefused, fetchPc, attempts, tries, rounds, fetchResult,
                    nextNum, hostname, queueResult, hostMap, gcLock, gcPc,
                    gcPeer, addPc, deletedBusyHost>>

GcInit ==
    /\ TaskInit
    /\ regResult = RegNormal /\ ~disableAutoBackSource /\ ~limiter
    /\ hostname = <<>> /\ queueResult = NoQueueResult

GcNext ==
    \/ \E p \in GcPeers : ManagerAddHost(p)
    \/ \E p \in GcPeers : ManagerAddStore(p)
    \/ CleanupVisit
    \/ CleanupKeep
    \/ CleanupDelete
    \/ CleanupCheck
    \/ CleanupHostDelete
    \/ CleanupTasksDelete

GcSpec == GcInit /\ [][GcNext]_vars

\* ==================================================================== claims
\* the goroutine started by Start has returned
MainEnded == pc[Main] = "exited"

\* C1: finish and cleanUnfinished share one sync.Once: their bodies run at
\* most once in total over the life of a task, and the done channel is closed
\* at most once.
C1_OneShotRunsOnce ==
    /\ bodyRuns.finish + bodyRuns.clean <= 1
    /\ doneCloses <= 1

\* a task pulled from peers that finish has ended: the deferred
\* cleanUnfinished of pullPiecesFromPeers came after it and was turned away
C1_Witness ==
    /\ ~singlePiece /\ MainEnded
    /\ bodyRuns.finish = 1 /\ doneCloses = 1

\* C2: every started task ends through the body of finish or of
\* cleanUnfinished, which closes done, whatever ends it: once the goroutine
\* started by Start has returned, done is closed.
C2_EndedTaskClosedDone == MainEnded => done

\* C3: one progress event with PeerTaskDone = true is delivered per task,
\* never two and never none; stated for the tasks whose initiator did not
\* cancel: when done is closed the initiator has received one terminal event.
C3_OneTerminalEvent ==
    /\ Len(terminalEvents) <= 1
    /\ (done /\ initPc # "cancelled") => Len(terminalEvents) = 1

\* C4: completedLength is the sum of RangeSize over the ready pieces in every
\* reachable state; a second successful report of a piece adds nothing.
C4_CompletedLengthIsSum == completedLength = SumRange(readyPieces)

\* a successful report of a piece that is already ready was skipped
C4_Witness == \E t \in Threads : pc[t] = "rp_dup" /\ completedLength > 0

\* C5: for each piece number at most one PieceResult with Success = true is
\* sent on the scheduler stream.
C5_OneSuccessPerPiece == \A n \in Pieces : successSent[n] <= 1

\* every piece has had its success sent once and one more successful report
\* of a piece arrived
C5_Witness ==
    /\ \A n \in Pieces : successSent[n] = 1
    /\ \E t \in Threads : pc[t] = "rp_dup"

\* C6: with auto back-source disabled a schedule timeout never starts
\* DownloadSource.
C6_NoBackSourceWhenDisabled == disableAutoBackSource => downloadSourceCalls = 0

\* C7: when the coordinator closes peerPacketReady for SchedNeedBackSource and
\* that wakes the pull loop, the loop starts DownloadSource exactly once (auto
\* back-source enabled) and does not go on as if a peer packet had arrived.
C7_NeedBackSourceStartsDownloadSource ==
    (wokenByClose /\ ~disableAutoBackSource /\ MainEnded)
        => (downloadSourceCalls = 1 /\ ~panicking)

\* C8: after a packet with an exit code the task ends through cleanUnfinished
\* with a terminal event that carries that code; stated for the tasks that
\* pull from peers only (no schedule timeout has started DownloadSource).
C8_ExitCodeInTerminalEvent ==
    (pg.by = "clean" /\ built.exit # None /\ downloadSourceCalls = 0)
        => (~pg.success /\ pg.code = built.exit)

\* C9: when the initiator cancels while the task pulls pieces from peers and
\* no failure was recorded before, the code passed to callback.Fail and the
\* code of the terminal event is ClientContextCanceled.
C9_CancelRecordsContextCanceled ==
    (pg.by = "clean" /\ built.cancelFirst /\ initialized
     /\ downloadSourceCalls = 0)
        => /\ pg.code = "ClientContextCanceled"
           /\ \A i \in DOMAIN failCalls :
                 failCalls[i].code = "ClientContextCanceled"

\* C10: once a failure source has set failedCode and failedReason no later
\* source overwrites them.
C10_FirstFailureWins ==
    /\ firstFail.code # None => failedCode = firstFail.code
    /\ firstFail.reason # None => failedReason = firstFail.reason

\* C11: over every exit path of the pull loop the task calls callback.Done
\* and callback.Fail exactly once in total.
C11_OneCallbackPerTask ==
    (pullStarts > 0 /\ MainEnded) => doneCalls + Len(failCalls) = 1

\* C12: a piece number the pull loop takes from failedPieceCh, at the top of
\* the loop or in waitFailedPiece, is what the loop requests next: StartNum is
\* that piece number and Limit is 1.
C12_FailedPieceRequestedAgain ==
    (pc[Main] = "prepare" /\ takenFailed # -1)
        => (num = takenFailed /\ limit = 1)

\* a task that newFilePeerTask returned after RegisterPeerTask failed
RegisterFailedTask == regResult.err # None /\ ret.task

\* C13: a task created after a failed registration has needBackSource, the
\* task id of idgen and the dummy stream; Start runs DownloadSource once and
\* starts no coordinator, pull loop or worker, nothing sent reaches a
\* scheduler, and the task ends through finish when DownloadSource succeeded
\* and through cleanUnfinished when it failed.
C13_RegisterFailBackSource ==
    RegisterFailedTask =>
        /\ taskID = IdgenTaskID /\ stream = "dummy" /\ needBackSource
        /\ coordStarts = 0 /\ pullStarts = 0 /\ coordPc = "idle"
        /\ \A w \in Workers : pc[w] = "idle"
        /\ ~schedulerSaw
        /\ downloadSourceCalls = (IF pc[Main] = "start" THEN 0 ELSE 1)
        /\ MainEnded => /\ bodyRuns.finish + bodyRuns.clean = 1
                        /\ dsResult \in {"ok", "err"}
                        /\ dsResult = "ok" => pg.by = "finish"
                        /\ dsResult = "err" => pg.by = "clean"

\* a back-source task ended through finish and its end piece result was
\* passed to the dummy stream
C13_Witness ==
    /\ RegisterFailedTask /\ MainEnded
    /\ pg.by = "finish" /\ lastSent.kind = "end"

\* C14: when RegisterPeerTask fails and auto back-source is disabled,
\* newFilePeerTask returns the registration error and no task, opens no
\* stream, and nothing is downloaded.
C14_RegisterFailDisabled ==
    (regResult.err # None /\ disableAutoBackSource /\ pc[Main] # "new") =>
        /\ ret = [task |-> FALSE, tiny |-> NoTinyData, err |-> RegisterError]
        /\ pc[Main] = "notask" /\ stream = None
        /\ readyPieces = {} /\ downloadSourceCalls = 0 /\ lastSent = NoSend
        /\ coordStarts = 0 /\ pullStarts = 0

C14_Witness ==
    /\ regResult.err # None /\ disableAutoBackSource
    /\ pc[Main] = "notask" /\ ret.err = RegisterError

\* C15: a Tiny registration result with inline content makes newFilePeerTask
\* return that content with the task id and the peer id, no task and no
\* error; a Tiny result without content returns an error; neither opens the
\* stream.
C15_TinyReturnsContent ==
    (regResult.scope = "TINY" /\ pc[Main] # "new") =>
        /\ ~ret.task /\ pc[Main] = "notask" /\ stream = None
        /\ lastSent = NoSend
        /\ IF regResult.direct \in Contents
           THEN /\ ret.err = None
                /\ ret.tiny = [TaskID |-> regResult.TaskId, PeerID |-> PeerID,
                               Content |-> regResult.direct]
           ELSE ret.err # None /\ ret.tiny = NoTinyData

C15_Witness ==
    /\ regResult.scope = "TINY" /\ pc[Main] = "notask"
    /\ ret.tiny.Content = "content-b"

C17_SmallFallback ==
    (singlePiece /\ pullStarts > 0) =>
        /\ coordStarts = 1 /\ pullStarts = 1
        /\ (pc[Main] = "prepare" /\ 0 \notin readyPieces)
               => (num = 0 /\ limit = 1)

\* C18: every piece whose ready bit is set has its requested bit set; stated
\* for the tasks that download from peers only (Normal dispatch and the Small
\* single-piece download).
C18_ReadyAreRequested ==
    downloadSourceCalls = 0 => readyPieces \subseteq requestedPieces

\* C19: every PieceResult passed to the scheduler stream carries as
\* FinishedCount the number of ready pieces at the moment it is sent.
C19_FinishedCountIsReadyCount ==
    lastSent.kind # None => lastSent.fc = lastSent.ready

\* C20: once the body of finish has run for a task whose content length is
\* known and positive, completedLength equals contentLength.
C20_FinishedIsComplete ==
    (pg.by = "finish" /\ contentLength > 0) => completedLength = contentLength

\* finish ran for a task that pulled all its pieces from peers
C20_Witness ==
    /\ pg.by = "finish" /\ contentLength > 0
    /\ ~singlePiece /\ downloadSourceCalls = 0 /\ readyPieces = Pieces

\* C21: at every moment the current peer packet is the most recently
\* received packet with code Success and a main peer or steal peers, and
\* pieceParallelCount is the ParallelCount of that packet.
C21_CurrentIsLatestPacket ==
    /\ peerPacket = lastGood
    /\ pieceParallelCount = lastGood.ParallelCount

\* C22: a packet with a code that is neither Success nor an exit code, and a
\* Success packet without main peer and steal peers, change neither the
\* current peer packet, pieceParallelCount, failedCode, failedReason nor the
\* task context, signal nothing on peerPacketReady, and the coordinator goes
\* on receiving.
C22_IgnoredPacketChangesNothing ==
    [][(/\ lastRecv' # lastRecv
        /\ lastRecv' \in (PacketCodes \ ExitCodes) \cup {"empty"})
       => /\ UNCHANGED <<peerPacket, pieceParallelCount, failedCode,
                         failedReason, firstFail, ctxDone, peerPacketReady>>
          /\ coordPc' = "recv"]_vars

\* a packet with the code CdnTaskNotFound came after a peer packet was stored
C22_Witness ==
    /\ lastRecv = "CdnTaskNotFound"
    /\ peerPacket # NilPeerPacket
    /\ coordPc = "recv"

\* C23: when a get-piece call fails or returns no pieces while the stored
\* packet names another main peer than the packet the call was prepared
\* from, preparePieceTasks starts again and loads the stored packet; no
\* failure code or reason is recorded and the context is not cancelled.
C23_PacketChangeRestarts ==
    [][/\ (/\ pc[Main] = "getPiece"
           /\ curPeerPacket.MainPeer # peerPacket.MainPeer
           /\ pc'[Main] \notin {"getPiece", "dispatch", "deferred"})
          => /\ pc'[Main] = "prepare"
             /\ packetChanged'
             /\ UNCHANGED <<failedCode, failedReason, firstFail, ctxDone,
                            peerPacket>>
       /\ (pc[Main] = "prepare" /\ pc'[Main] = "getPiece")
          => curPeerPacket' = peerPacket]_vars

\* after such a restart the task was completed from peers and ended in finish
C23_Witness ==
    /\ packetChanged /\ MainEnded
    /\ downloadSourceCalls = 0
    /\ pg.by = "finish" /\ pg.success
    /\ readyPieces = Pieces

\* C24: DownloadSource does not run while a piece worker downloads or
\* reports a piece.
C24_BackSourceExcludesWorkers ==
    pc[Main] = "ds_piece" =>
        \A w \in Workers : pc[w] \in {"idle", "w_wait", "exited"}

\* C25: a registered task that went to the source because no peer packet
\* came within ScheduleTimeout, and whose DownloadSource succeeded, ends with
\* a terminal event with success = true and has passed no PieceResult, the
\* end piece result included, to the scheduler stream.
C25_TimeoutBackSourceSendsNothing ==
    (/\ regResult.err = None
     /\ ~disableAutoBackSource
     /\ backSourceFrom = "waitFirst"
     /\ dsResult = "ok"
     /\ pg.code # "ClientError")
    => /\ pg.success
       /\ lastSent = NoSend
       /\ endSent = 0
       /\ ~schedulerSaw

\* C26: the end piece result is sent once per task and nothing is sent on
\* the scheduler stream after it.
C26_EndSentinelLast ==
    /\ endSent <= 1
    /\ endSent = 1 => lastSent.kind = "end"

\* C27: the number of piece workers started by init is the ParallelCount of
\* the first peer packet.
C27_WorkersOfFirstPacket ==
    workersStarted # -1 => workersStarted = firstParallel

\* C30: in a run of a Normal task without a failed download, cancellation,
\* schedule timeout, error code of the scheduler or callback error the body
\* of cleanUnfinished never runs: the one-shot is taken by finish, which
\* calls callback.Done and builds a terminal event with success = true.
C30_FinishTakesOneShot ==
    (/\ regResult = RegNormal
     /\ faultsLeft = MaxFaults
     /\ downloadSourceCalls = 0
     /\ ~panicking)
    => /\ bodyRuns.clean = 0
       /\ MainEnded => /\ bodyRuns.finish = 1 /\ doneCalls = 1
                       /\ pg.by = "finish" /\ pg.success

\* C29: for a hostname that is not empty GetSchedulerQueue returns the queue
\* name "scheduler_" followed by the hostname and GetCDNQueue the queue name
\* "cdn_" followed by the hostname, both without error; for the empty
\* hostname both return the empty queue name and the error
\* "empty hostname config is not specified".
C29_QueueNames ==
    queueResult.fn # None =>
        LET prefix == IF queueResult.fn = "GetSchedulerQueue"
                      THEN <<"s", "c", "h", "e", "d", "u", "l", "e", "r", "_">>
                      ELSE <<"c", "d", "n", "_">>
            q == queueResult.queue
        IN IF hostname = <<>>
           THEN /\ q = <<>>
                /\ queueResult.err = "empty hostname config is not specified"
           ELSE /\ queueResult.err = None
                /\ Len(q) = Len(prefix) + Len(hostname)
                /\ SubSeq(q, 1, Len(prefix)) = prefix
                /\ SubSeq(q, Len(prefix) + 1, Len(q)) = hostname

\* GetSchedulerQueue was called for the hostname "ab"
C29_Witness ==
    /\ hostname = <<"a", "b">>
    /\ queueResult = [fn |-> "GetSchedulerQueue",
                      queue |-> <<"s", "c", "h", "e", "d", "u", "l", "e", "r",
                                  "_", "a", "b">>,
                      err |-> None]

\* the pull loop and the piece workers have returned, or the process ended
TaskStopped ==
    \/ crashed
    \/ /\ pc[Main] \in {"exited", "notask"}
       /\ \A w \in Workers : pc[w] \in {"idle", "exited"}
       /\ coordPc \in {"idle", "exited"}

C31_NewPacketRetriesFetch ==
    wokenByPacket => /\ ~panicking
                     /\ pc[Main] \in {"loopTop", "prepare", "getPiece"}

\* a goroutine is about to report the result of a download: the single piece
\* of a Small task, or the piece a worker took from the request channel
Reporting(t) == pc[t] \in {"single_dl", "w_work"}
\* the piece the report of t is about
ReportedPiece(t) == IF t = Main THEN 0 ELSE cur[t]

\* C32: a ReportPieceResult call with Success = false (the call that passes a
\* failed PieceResult to the stream) leaves readyPieces, requestedPieces and
\* completedLength unchanged, pushes the piece number on failedPieceCh exactly
\* once and returns to its caller without the progress event and without
\* finish; on a closed failedPieceCh it pushes nothing and returns, and the
\* process goes on.
C32_FailedReportFrame ==
    [][\A t \in Threads :
         (/\ Reporting(t) /\ pc'[t] \notin {pc[t], "rp_dup"}
          /\ lastSent'.kind = "fail")
         => /\ UNCHANGED <<readyPieces, requestedPieces, completedLength,
                           terminalEvents, once, done>>
            /\ pc'[t] \notin {"rp_progress", "fin_once"}
            /\ stack'[t] = stack[t]
            /\ ~crashed'
            /\ IF failedPieceCh.closed
               THEN failedPieceCh' = failedPieceCh
               ELSE failedPieceCh' = [failedPieceCh EXCEPT
                                        !.buf = Append(@, ReportedPiece(t))]]_vars

\* a worker reported a failed piece after the pull loop had closed
\* failedPieceCh and run cleanUnfinished; the process goes on
C32_Witness ==
    /\ failedPieceCh.closed /\ lastSent.kind = "fail"
    /\ bodyRuns.clean = 1 /\ downloadSourceCalls = 0 /\ ~singlePiece
    /\ MainEnded /\ ~crashed
    /\ \E w \in Workers : pc[w] = "exited"

\* every goroutine of the task has returned
AllEnded ==
    /\ MainEnded
    /\ \A w \in Workers : pc[w] \in {"idle", "exited"}
    /\ coordPc \in {"idle", "exited"}

\* C33: when the rate limiter refuses the wait for a piece, the worker reports
\* the piece as failed, the context of the task is cancelled, the worker
\* returns, and the task ends through cleanUnfinished with the failure code
\* ClientRequestLimitFail; stated for the tasks with auto back-source enabled,
\* in which no timeout writes a failure code, once every goroutine has
\* returned.
C33_LimiterRefusalEndsTask ==
    (limitRefused /\ ~disableAutoBackSource /\ AllEnded /\ ~crashed)
        => /\ ctxDone
           /\ bodyRuns.clean = 1 /\ bodyRuns.finish = 0
           /\ pg.by = "clean" /\ pg.code = "ClientRequestLimitFail"

\* C34: one fetch of piece metadata from one peer makes at most 40 get-piece
\* calls to that peer before it returns, whatever the peer answers, empty
\* packets and CdnTaskNotFound errors under an unchanged peer packet included.
C34_FetchIsBounded == attempts <= MaxAttempts

\* the piece numbers from n on whose requested bit is clear
Unrequested(n) == {p \in n .. (n + NumPieces + 1) : p \notin requestedPieces}
\* the smallest element of a set of numbers
Smallest(S) == CHOOSE x \in S : \A y \in S : x <= y
\* the total piece count is known and every piece below it is requested
AllRequested ==
    totalPiece > 0 /\ \A p \in 0 .. (totalPiece - 1) : p \in requestedPieces

C36_CompletedMeansAllReady ==
    nextNum # NotCalled =>
        /\ isCompleted <=> /\ Cardinality(readyPieces) = totalPiece
                           /\ completedLength = contentLength
        /\ isCompleted => readyPieces = Pieces

\* the initiator has received the terminal event of cleanUnfinished
CleanEventSeen ==
    \E i \in 1 .. Len(terminalEvents) : terminalEvents[i].by = "clean"

\* C37: cleanUnfinished sends the end sentinel, calls callback.Fail, emits
\* the terminal progress event with success = false and closes done, in that
\* order: Fail has been called before the initiator can see the terminal
\* event, and done is closed last.
C37_CleanOrder ==
    bodyRuns.clean > 0 =>
        /\ endSent > 0
        /\ CleanEventSeen => failCalls # <<>>
        /\ (done /\ pg.by = "clean") => failCalls # <<>>

\* the pull loop is blocked in its send on the full pieceRequestCh
PullBlocked ==
    /\ pc[Main] = "dispatch" /\ piecePacket.PieceInfos # <<>>
    /\ Len(pieceRequestCh) = DefaultPieceChanSize
\* every started worker is blocked in its send on the full failedPieceCh
WorkersBlocked ==
    /\ StartedWorkers # {}
    /\ \A w \in StartedWorkers : pc[w] = "rp_push"
    /\ Len(failedPieceCh.buf) = DefaultPieceChanSize
    /\ ~failedPieceCh.closed

\* C38: with pieceRequestCh and failedPieceCh both of capacity
\* DefaultPieceChanSize and at most Limit pieces per response, no state
\* without cancellation has the pull loop blocked sending on pieceRequestCh
\* while every worker is blocked sending on failedPieceCh.
C38_NoCircularWait ==
    (~ctxDone /\ ~done) => ~(PullBlocked /\ WorkersBlocked)

\* both channels are full and every worker is blocked on failedPieceCh while
\* the pull loop is at the top of its loop, where it takes a failed piece
C38_Witness ==
    /\ ~ctxDone /\ ~done /\ WorkersBlocked
    /\ Len(pieceRequestCh) = DefaultPieceChanSize
    /\ pc[Main] = "loopTop"

\* C39: cleanupPeers deletes a host from the host manager exactly when the
\* peer it just deleted belonged to a host that is not a CDN and has no peer
\* left; however manager.Add interleaves with the loop, a host that has a
\* registered peer is never deleted from the host manager.
C39_BusyHostIsKept ==
    /\ ~deletedBusyHost
    /\ \A h \in Hosts \ hostMap : ~CDN(h)
    /\ gcPc = "hostDelete" => /\ gcPeer \notin peerMap
                              /\ ~CDN(PeerHost(gcPeer))
====
